---- MODULE Spec2Model ----
(***************************************************************************)
(* A model of the novel generator's checkpointed pipelines:               *)
(*   - the Stage Sequencer, Novel_architecture_generate                    *)
(*     (novel_generator/architecture.py),                                  *)
(*   - the Chunked Outline Controller, Chapter_blueprint_generate, with    *)
(*     compute_chunk_size and limit_chapter_blueprint                      *)
(*     (novel_generator/blueprint.py),                                     *)
(*   - the Vector Index Manager with the wrapped embedding calls           *)
(*     (novel_generator/vectorstore_utils.py),                             *)
(*   - the Finalization Controller, finalize_chapter                       *)
(*     (novel_generator/finalization.py).                                  *)
(*                                                                         *)
(* Texts are sequences of tokens: Ws is one whitespace character, Tx(i) a   *)
(* piece of text without whitespace or marker, Hd(i) a section header of   *)
(* the architecture document, Tp(t) the settings of a run, and Mark(i) a   *)
(* chapter-index marker, a match of the pattern 第\s*(\d+)\s*章 with i    *)
(* its number.                                                             *)
(***************************************************************************)
EXTENDS Integers, Sequences, FiniteSets, TLC

VARIABLES
    \* ---- durable files of the project directory
    partial_file,          \* partial_architecture.json
    arch_file,             \* Novel_architecture.txt
    character_state_file,  \* character_state.txt
    \* ---- Novel_architecture_generate: the run in progress
    pc,                    \* position of the run ("idle": no run)
    topic,                 \* run-level parameter of the run
    partial_data,          \* the in-memory Stage Progress Record
    calls,                 \* generation calls issued by the run, in order,
                           \* each with its response and with the progress
                           \* file as it was when the call was issued
    run0,                  \* the durable files as the run found them
    outcome,               \* how the last run ended
    wrote_final,           \* the run has written Novel_architecture.txt
    io_faults,             \* whether writes of the progress record may fail
    \* ---- Chapter_blueprint_generate: files and the run in progress
    directory_file,        \* Novel_directory.txt
    bp_pc,                 \* position of the run ("idle": no run)
    number_of_chapters,    \* run-level parameter
    max_tokens,            \* run-level parameter
    chunk_size,            \* compute_chunk_size(number_of_chapters, max_tokens)
    final_blueprint,       \* the outline accumulated by the run
    current_start,         \* first chapter of the next chunk
    limited_blueprint,     \* the chapter_list of the last chunk prompt
    requests,              \* generation calls issued by the run, in order,
                           \* each with its range and its response
    bp0,                   \* Novel_directory.txt as the run found it
    bp_outcome,            \* how the last run ended
    \* ---- the vector index and finalize_chapter
    vectorstore,           \* the index directory <filepath>/vectorstore
    global_summary_file,   \* global_summary.txt
    chapters_dir,          \* the files chapters/chapter_<n>.txt, by n
    backend,               \* the embedding backend: "up", "down" or "flaky"
    store_faults,          \* whether opening or deleting the index may fail
    last,                  \* the last operation on the index or the last
                           \* finalization, with what it returned
    \* ---- a second process running Novel_architecture_generate on the
    \* ---- same project directory
    other,                 \* the run of the process that is not executing:
                           \* its position and its in-memory state
    switches               \* number of context switches between the two

arch_vars == <<partial_file, arch_file, character_state_file, pc, topic,
               partial_data, calls, run0, outcome, wrote_final, io_faults>>

bp_vars == <<directory_file, bp_pc, number_of_chapters, max_tokens,
             chunk_size, final_blueprint, current_start, limited_blueprint,
             requests, bp0, bp_outcome>>

fin_vars == <<vectorstore, global_summary_file, chapters_dir, backend,
              store_faults, last>>

conc_vars == <<other, switches>>

vars == <<arch_vars, bp_vars, fin_vars, conc_vars>>

----------------------------------------------------------------------------
(* Texts *)

Ws == [k |-> "ws", n |-> 0]
Tx(i) == [k |-> "text", n |-> i]
Hd(i) == [k |-> "header", n |-> i]
Tp(t) == [k |-> "topic", n |-> t]
Mark(i) == [k |-> "mark", n |-> i]

\* str.strip(): leading and trailing whitespace removed
RECURSIVE LStrip(_)
LStrip(s) == IF s # <<>> /\ Head(s) = Ws THEN LStrip(Tail(s)) ELSE s

RECURSIVE RStrip(_)
RStrip(s) ==
    IF s # <<>> /\ s[Len(s)] = Ws THEN RStrip(SubSeq(s, 1, Len(s) - 1)) ELSE s

Strip(s) == RStrip(LStrip(s))

\* `not text.strip()`
IsBlank(s) == Strip(s) = <<>>

----------------------------------------------------------------------------
(* Files *)

NoFile == [exists |-> FALSE, text |-> <<>>]
File(t) == [exists |-> TRUE, text |-> t]

\* partial_architecture.json: absent, unparsable, or a stage -> text mapping
NoRecord == [state |-> "absent", data |-> <<>>]
CorruptRecord == [state |-> "corrupt", data |-> <<>>]
RecordFile(d) == [state |-> "ok", data |-> d]

----------------------------------------------------------------------------
(* The Stage Progress Record *)

Stages == {"core_seed_result", "character_dynamics_result",
           "character_state_result", "world_building_result",
           "plot_arch_result"}

PrimaryStages == {"core_seed_result", "character_dynamics_result",
                  "world_building_result", "plot_arch_result"}

EmptyData == <<>>

\* `key in partial_data`
Has(d, key) == key \in DOMAIN d

\* An assignment that leaves only the new entry in the record
Put_replacing(d, key, value) == [k \in {key} |-> value]

\* partial_data[key] = value
Put(d, key, value) ==
    [k \in (DOMAIN d) \cup {key} |-> IF k = key THEN value ELSE d[k]]

\* A load that never resumes
load_partial_ignoring_file(f) == EmptyData

\* load_partial_architecture_data: {} when the file is absent or unparsable
load_partial_architecture_data(f) ==
    IF f.state = "absent" THEN EmptyData
    ELSE IF f.state = "corrupt" THEN EmptyData
    ELSE f.data

\* The outcomes of open(partial_file, "w") followed by json.dump
WriteOutcomes ==
    IF io_faults THEN {"ok", "open_failed", "write_failed"} ELSE {"ok"}

\* A save that keeps the entries of the file that the record does not have
save_partial_merging(f, data, o) ==
    IF f.state = "ok"
    THEN RecordFile([k \in (DOMAIN f.data) \cup (DOMAIN data) |->
                        IF k \in DOMAIN data THEN data[k] ELSE f.data[k]])
    ELSE RecordFile(data)

\* save_partial_architecture_data: the file after the call.  open(.., "w")
\* truncates; a failure while dumping leaves a truncated, unparsable file;
\* the exception is logged and swallowed.
save_partial_architecture_data(f, data, o) ==
    IF o = "ok" THEN RecordFile(data)
    ELSE IF o = "open_failed" THEN f
    ELSE CorruptRecord

----------------------------------------------------------------------------
(* The generation call *)

\* Texts invoke_with_cleaning may return: empty, blank, and non-blank ones
ArchResponses == {<<>>, <<Ws>>, <<Tx(1)>>, <<Ws, Tx(2)>>}

Topics == {1, 2}

\* Rendered prompts: the template and the values substituted into it
Prompt(template, args) == [template |-> template, args |-> args]

----------------------------------------------------------------------------
(* Durable text store (utils.clear_file_content, utils.save_string_to_txt) *)

\* clear_file_content(path): the file exists and is empty
clear_file_content(f) == File(<<>>)

\* save_string_to_txt(content, path): the file holds exactly content
save_string_to_txt(content, f) == File(content)

----------------------------------------------------------------------------
(* Novel_architecture_generate *)

\* A combined document with the world before the characters
final_content_reordered(d, t) ==
    <<Hd(0), Ws, Tp(t), Ws, Ws>>
    \o <<Hd(1), Ws>> \o d["core_seed_result"] \o <<Ws, Ws>>
    \o <<Hd(2), Ws>> \o d["world_building_result"] \o <<Ws, Ws>>
    \o <<Hd(3), Ws>> \o d["character_dynamics_result"] \o <<Ws, Ws>>
    \o <<Hd(4), Ws>> \o d["plot_arch_result"] \o <<Ws>>

\* The combined document: the settings line and the four results under the
\* fixed section headers (Hd(0)..Hd(4)), separated by blank lines
final_content(d, t) ==
    <<Hd(0), Ws, Tp(t), Ws, Ws>>
    \o <<Hd(1), Ws>> \o d["core_seed_result"] \o <<Ws, Ws>>
    \o <<Hd(2), Ws>> \o d["character_dynamics_result"] \o <<Ws, Ws>>
    \o <<Hd(3), Ws>> \o d["world_building_result"] \o <<Ws, Ws>>
    \o <<Hd(4), Ws>> \o d["plot_arch_result"] \o <<Ws>>

\* os.makedirs; partial_data = load_partial_architecture_data(filepath);
\* the adapter is created
ArchStart ==
    /\ pc = "idle"
    /\ \E t \in Topics : topic' = t
    /\ partial_data' = load_partial_architecture_data(partial_file)
    /\ calls' = <<>>
    /\ run0' = [partial_file |-> partial_file, arch_file |-> arch_file,
                character_state_file |-> character_state_file]
    /\ outcome' = "running"
    /\ wrote_final' = FALSE
    /\ pc' = "step1"
    /\ UNCHANGED <<partial_file, arch_file, character_state_file, io_faults,
                   bp_vars, fin_vars, conc_vars>>

\* A stage that records a blank result before it returns
GenerateStage_recording_blank(key, prompt, next_pc) ==
    \E r \in ArchResponses, o \in WriteOutcomes :
        /\ calls' = Append(calls, [stage |-> key, prompt |-> prompt,
                                    response |-> r, file_before |-> partial_file])
        /\ partial_data' = Put(partial_data, key, r)
        /\ partial_file' =
               save_partial_architecture_data(partial_file, partial_data', o)
        /\ IF IsBlank(r)
           THEN pc' = "idle" /\ outcome' = "halted"
           ELSE pc' = next_pc /\ UNCHANGED outcome

\* The stage pattern: render the prompt, call the model; a blank result
\* saves the record as it is and returns; any other result is entered in
\* the record under key and the record is saved.
GenerateStage(key, prompt, next_pc) ==
    \E r \in ArchResponses, o \in WriteOutcomes :
        /\ calls' = Append(calls, [stage |-> key, prompt |-> prompt,
                                    response |-> r, file_before |-> partial_file])
        /\ IF IsBlank(r)
           THEN /\ partial_file' =
                       save_partial_architecture_data(partial_file, partial_data, o)
                /\ pc' = "idle"
                /\ outcome' = "halted"
                /\ UNCHANGED partial_data
           ELSE /\ partial_data' = Put(partial_data, key, r)
                /\ partial_file' =
                       save_partial_architecture_data(partial_file, partial_data', o)
                /\ pc' = next_pc
                /\ UNCHANGED outcome

\* A stage whose entry is present is skipped
SkipStage(next_pc) ==
    /\ pc' = next_pc
    /\ UNCHANGED <<partial_file, partial_data, calls, outcome>>

\* Step1: core seed
Step1 ==
    /\ pc = "step1"
    /\ IF ~Has(partial_data, "core_seed_result")
       THEN GenerateStage("core_seed_result",
                          Prompt("core_seed_prompt", <<<<Tp(topic)>>>>), "step2")
       ELSE SkipStage("step2")
    /\ UNCHANGED <<arch_file, character_state_file, topic, run0, wrote_final,
                   io_faults,
                   bp_vars, fin_vars, conc_vars>>

\* Step2: character dynamics, from the core seed
Step2 ==
    /\ pc = "step2"
    /\ IF ~Has(partial_data, "character_dynamics_result")
       THEN GenerateStage("character_dynamics_result",
                Prompt("character_dynamics_prompt",
                       <<Strip(partial_data["core_seed_result"])>>),
                "char_state")
       ELSE SkipStage("char_state")
    /\ UNCHANGED <<arch_file, character_state_file, topic, run0, wrote_final,
                   io_faults,
                   bp_vars, fin_vars, conc_vars>>

\* A side stage that generates the character state again although the
\* record holds one
StepCharacterState_regenerating ==
    /\ pc = "char_state"
    /\ GenerateStage("character_state_result",
           Prompt("create_character_state_prompt",
                  <<Strip(partial_data["character_dynamics_result"])>>),
           "step3")
    /\ IF Has(partial_data', "character_state_result")
       THEN character_state_file' =
                save_string_to_txt(
                    partial_data'["character_state_result"],
                    clear_file_content(character_state_file))
       ELSE UNCHANGED character_state_file
    /\ UNCHANGED <<arch_file, topic, run0, wrote_final, io_faults,
                   bp_vars, fin_vars, conc_vars>>

\* The initial character state, from the character dynamics; a non-blank
\* result is also written to character_state.txt
StepCharacterState ==
    /\ pc = "char_state"
    /\ IF /\ Has(partial_data, "character_dynamics_result")
          /\ ~Has(partial_data, "character_state_result")
       THEN /\ GenerateStage("character_state_result",
                   Prompt("create_character_state_prompt",
                          <<Strip(partial_data["character_dynamics_result"])>>),
                   "step3")
            /\ IF Has(partial_data', "character_state_result")
               THEN character_state_file' =
                        save_string_to_txt(
                            partial_data'["character_state_result"],
                            clear_file_content(character_state_file))
               ELSE UNCHANGED character_state_file
       ELSE /\ SkipStage("step3")
            /\ UNCHANGED character_state_file
    /\ UNCHANGED <<arch_file, topic, run0, wrote_final, io_faults,
                   bp_vars, fin_vars, conc_vars>>

\* Step3: world building, from the core seed
Step3 ==
    /\ pc = "step3"
    /\ IF ~Has(partial_data, "world_building_result")
       THEN GenerateStage("world_building_result",
                Prompt("world_building_prompt",
                       <<Strip(partial_data["core_seed_result"])>>),
                "step4")
       ELSE SkipStage("step4")
    /\ UNCHANGED <<arch_file, character_state_file, topic, run0, wrote_final,
                   io_faults,
                   bp_vars, fin_vars, conc_vars>>

\* Step4: plot architecture, from core seed, character dynamics and world
Step4 ==
    /\ pc = "step4"
    /\ IF ~Has(partial_data, "plot_arch_result")
       THEN GenerateStage("plot_arch_result",
                Prompt("plot_architecture_prompt",
                       <<Strip(partial_data["core_seed_result"]),
                         Strip(partial_data["character_dynamics_result"]),
                         Strip(partial_data["world_building_result"])>>),
                "write_final")
       ELSE SkipStage("write_final")
    /\ UNCHANGED <<arch_file, character_state_file, topic, run0, wrote_final,
                   io_faults,
                   bp_vars, fin_vars, conc_vars>>

\* The four results are combined and written to Novel_architecture.txt
WriteFinal ==
    /\ pc = "write_final"
    /\ arch_file' = save_string_to_txt(final_content(partial_data, topic),
                                       clear_file_content(arch_file))
    /\ wrote_final' = TRUE
    /\ pc' = "remove_partial"
    /\ UNCHANGED <<partial_file, character_state_file, topic, partial_data,
                   calls, run0, outcome, io_faults,
                   bp_vars, fin_vars, conc_vars>>

\* partial_architecture.json is removed if it exists; the run returns
RemovePartial ==
    /\ pc = "remove_partial"
    /\ partial_file' = IF partial_file.state # "absent" THEN NoRecord
                       ELSE partial_file
    /\ pc' = "idle"
    /\ outcome' = "completed"
    /\ UNCHANGED <<arch_file, character_state_file, topic, partial_data,
                   calls, run0, wrote_final, io_faults,
                   bp_vars, fin_vars, conc_vars>>

\* The stage a run generates at a position, if its entry is missing
StageAt(p) ==
    CASE p = "step1" -> "core_seed_result"
      [] p = "step2" -> "character_dynamics_result"
      [] p = "char_state" -> "character_state_result"
      [] p = "step3" -> "world_building_result"
      [] p = "step4" -> "plot_arch_result"

\* The process is terminated between two steps of a run
Kill ==
    /\ pc # "idle"
    /\ pc' = "idle"
    /\ outcome' = "killed"
    /\ UNCHANGED <<partial_file, arch_file, character_state_file, topic,
                   partial_data, calls, run0, wrote_final, io_faults,
                   bp_vars, fin_vars, conc_vars>>

\* The process is terminated while save_partial_architecture_data rewrites
\* the file with the result r of the stage in flight: open(.., "w") has
\* truncated the file and json.dump has not written it out.  The initial
\* character state is written to character_state.txt before that.
KillDuringSave ==
    /\ pc \in {"step1", "step2", "char_state", "step3", "step4"}
    /\ ~Has(partial_data, StageAt(pc))
    /\ \E r \in ArchResponses :
          character_state_file' =
              IF pc = "char_state" /\ ~IsBlank(r)
              THEN save_string_to_txt(r, clear_file_content(character_state_file))
              ELSE character_state_file
    /\ partial_file' = CorruptRecord
    /\ pc' = "idle"
    /\ outcome' = "killed"
    /\ UNCHANGED <<arch_file, topic, partial_data, calls, run0, wrote_final,
                   io_faults, bp_vars, fin_vars, conc_vars>>

\* The state of a process that has not run Novel_architecture_generate
NoRun ==
    [pc |-> "idle", topic |-> 1, partial_data |-> EmptyData, calls |-> <<>>,
     run0 |-> [partial_file |-> NoRecord, arch_file |-> NoFile,
               character_state_file |-> NoFile],
     outcome |-> "none", wrote_final |-> FALSE]

\* The state of the executing process that a context switch sets aside
ThisRun ==
    [pc |-> pc, topic |-> topic, partial_data |-> partial_data,
     calls |-> calls, run0 |-> run0, outcome |-> outcome,
     wrote_final |-> wrote_final]

\* The number of context switches the model follows
MaxSwitches == 3

\* The scheduler suspends the executing process between two steps and
\* resumes the other one, which has not run yet or is in its run.  Each process has its own position and its own
\* in-memory record; the files of the project directory are shared, and
\* nothing in Novel_architecture_generate locks them.
Switch ==
    /\ switches < MaxSwitches
    /\ other.pc # "idle" \/ other.outcome = "none"
    /\ switches' = switches + 1
    /\ other' = ThisRun
    /\ pc' = other.pc
    /\ topic' = other.topic
    /\ partial_data' = other.partial_data
    /\ calls' = other.calls
    /\ run0' = other.run0
    /\ outcome' = other.outcome
    /\ wrote_final' = other.wrote_final
    /\ UNCHANGED <<partial_file, arch_file, character_state_file, io_faults,
                   bp_vars, fin_vars>>

\* No architecture run yet, in either process
ArchIdle ==
    /\ partial_file = NoRecord
    /\ character_state_file = NoFile
    /\ pc = "idle"
    /\ topic = 1
    /\ partial_data = EmptyData
    /\ calls = <<>>
    /\ run0 = [partial_file |-> NoRecord, arch_file |-> NoFile,
               character_state_file |-> NoFile]
    /\ outcome = "none"
    /\ wrote_final = FALSE
    /\ other = NoRun
    /\ switches = 0

ArchInit == ArchIdle /\ arch_file = NoFile

----------------------------------------------------------------------------
(* compute_chunk_size and limit_chapter_blueprint *)

\* An end of range that is not capped
Min_uncapped(a, b) == a

\* min(a, b)
Min(a, b) == IF a < b THEN a ELSE b

\* The estimate the docstring of compute_chunk_size names
tokens_per_chapter_docstring == 100

tokens_per_chapter == 200

\* A chunk size without the lower clamp
compute_chunk_size_no_floor(n, t) ==
    LET ratio_rounded_to_10 == (t \div (tokens_per_chapter * 10)) * 10
        size == ratio_rounded_to_10 - 10
    IN  IF size > n THEN n ELSE size

\* ratio = max_tokens / 200.0; int(ratio // 10) * 10 is ten times the
\* integer quotient of max_tokens by 200 * 10; then 10 is subtracted and the
\* two clamps are applied in the order of the code
compute_chunk_size(n, t) ==
    LET ratio_rounded_to_10 == (t \div (tokens_per_chapter * 10)) * 10
        size == ratio_rounded_to_10 - 10
        raised == IF size < 1 THEN 1 ELSE size
    IN  IF raised > n THEN n ELSE raised

\* The positions lo..hi of t that hold a marker, in increasing order
RECURSIVE MarkPositions(_, _, _)
MarkPositions(t, lo, hi) ==
    IF lo > hi THEN <<>>
    ELSE IF lo = hi THEN (IF t[lo].k = "mark" THEN <<lo>> ELSE <<>>)
    ELSE LET mid == (lo + hi) \div 2
         IN  MarkPositions(t, lo, mid) \o MarkPositions(t, mid + 1, hi)

\* re.findall(r"第\s*(\d+)\s*章", text) as integers: the marker numbers of
\* the text, in order
existing_chapter_numbers(t) ==
    LET ps == MarkPositions(t, 1, Len(t)) IN [i \in DOMAIN ps |-> t[ps[i]].n]

\* The first marker instead of the highest one
max_existing_chap_first(t) ==
    LET ns == existing_chapter_numbers(t)
    IN  IF ns = <<>> THEN 0 ELSE ns[1]

\* The number of markers instead of the highest one
max_existing_chap_counting(t) == Len(existing_chapter_numbers(t))

\* max(existing_chapter_numbers) if existing_chapter_numbers else 0
max_existing_chap(t) ==
    LET ns == existing_chapter_numbers(t)
    IN  IF ns = <<>> THEN 0
        ELSE CHOOSE x \in {ns[i] : i \in DOMAIN ns} :
                 \A j \in DOMAIN ns : ns[j] <= x

\* re.findall(r"(第\s*\d+\s*章.*?)(?=第\s*\d+\s*章|$)", text, re.DOTALL):
\* every match runs from a marker up to the next marker or the end; text
\* before the first marker is in no match
FindChapters(t) ==
    LET ps == MarkPositions(t, 1, Len(t))
    IN  [i \in DOMAIN ps |->
            SubSeq(t, ps[i], IF i < Len(ps) THEN ps[i + 1] - 1 ELSE Len(t))]

\* "\n\n".join(parts[lo..hi])
RECURSIVE JoinRange(_, _, _)
JoinRange(parts, lo, hi) ==
    IF lo > hi THEN <<>>
    ELSE IF lo = hi THEN parts[lo]
    ELSE LET mid == (lo + hi) \div 2
         IN  JoinRange(parts, lo, mid) \o <<Ws, Ws>>
             \o JoinRange(parts, mid + 1, hi)

\* A window that keeps the first chapters instead of the last
limit_chapter_blueprint_keeping_first(blueprint_text, limit_chapters) ==
    LET chapters == FindChapters(blueprint_text)
    IN  IF chapters = <<>> THEN blueprint_text
        ELSE IF Len(chapters) <= limit_chapters THEN blueprint_text
        ELSE Strip(JoinRange(chapters, 1, limit_chapters))

limit_chapter_blueprint(blueprint_text, limit_chapters) ==
    LET chapters == FindChapters(blueprint_text)
    IN  IF chapters = <<>> THEN blueprint_text
        ELSE IF Len(chapters) <= limit_chapters THEN blueprint_text
        ELSE Strip(JoinRange(chapters, Len(chapters) - limit_chapters + 1,
                             Len(chapters)))

\* The limit every call of limit_chapter_blueprint passes
ContextLimit == 100

----------------------------------------------------------------------------
(* Chapter_blueprint_generate *)

\* Bounds of the outline runs
MaxChapters == 3
LongNovel == 12
MaxOutlineLen == 30

TokenBudgets == {2048, 4096}

\* (number_of_chapters, max_tokens) of a run: short novels, a long one, and,
\* in a project without outline document, the novel of 250 chapters with
\* the default budget
RunParams ==
    {<<n, t>> : n \in 1..MaxChapters, t \in TokenBudgets}
    \cup {<<LongNovel, 4096>>}
    \cup (IF directory_file.exists THEN {} ELSE {<<250, 4096>>})

\* The entries of chapters n..m, one per line
RECURSIVE Chapters(_, _)
Chapters(n, m) ==
    IF n > m THEN <<>>
    ELSE IF n = m THEN <<Mark(n), Tx(1)>>
    ELSE LET mid == (n + m) \div 2
         IN  Chapters(n, mid) \o <<Ws>> \o Chapters(mid + 1, m)

\* Texts invoke_with_cleaning may return for the range n..m: empty, blank,
\* the requested entries, text without any marker, and the requested
\* entries cut short before the last one; for the ranges beyond the long
\* novel, blank and the requested entries
OutlineResponses(n, m) ==
    IF m > LongNovel + 1
    THEN {<<Ws>>, <<Ws>> \o Chapters(n, m) \o <<Ws>>}
    ELSE {<<>>, <<Ws>>, <<Ws>> \o Chapters(n, m) \o <<Ws>>, <<Tx(2)>>}
         \cup (IF n < m THEN {Chapters(n, m - 1)} ELSE {})

\* A check that takes a blank architecture document for a usable one
architecture_missing_unless_empty(f) == ~f.exists \/ f.text = <<>>

\* `not os.path.exists(arch_file)`, and `not architecture_text` of the
\* stripped text of the file
architecture_missing(f) == ~f.exists \/ Strip(f.text) = <<>>

\* The architecture check, the directory file, the chunk size and the
\* choice between resuming, the single shot and the chunked loop
BlueprintStart ==
    /\ bp_pc = "idle"
    /\ Len(directory_file.text) <= MaxOutlineLen
    /\ \E p \in RunParams :
          /\ number_of_chapters' = p[1]
          /\ max_tokens' = p[2]
          /\ bp0' = directory_file
          /\ requests' = <<>>
          /\ limited_blueprint' = <<>>
          /\ IF architecture_missing(arch_file)
             THEN /\ bp_pc' = "idle"
                  /\ bp_outcome' = "noop"
                  /\ chunk_size' = 0
                  /\ final_blueprint' = <<>>
                  /\ current_start' = 0
                  /\ UNCHANGED directory_file
             ELSE LET dir == IF directory_file.exists THEN directory_file
                             ELSE File(<<>>)
                      existing_blueprint == Strip(dir.text)
                      size == compute_chunk_size(p[1], p[2])
                  IN  /\ directory_file' = dir
                      /\ chunk_size' = size
                      /\ bp_outcome' = "running"
                      /\ IF existing_blueprint # <<>>
                         THEN /\ final_blueprint' = existing_blueprint
                              /\ current_start' =
                                     max_existing_chap(existing_blueprint) + 1
                              /\ bp_pc' = "resume_loop"
                         ELSE IF size >= p[1]
                         THEN /\ final_blueprint' = <<>>
                              /\ current_start' = 0
                              /\ bp_pc' = "single_shot"
                         ELSE /\ final_blueprint' = <<>>
                              /\ current_start' = 1
                              /\ bp_pc' = "chunk_loop"
    /\ UNCHANGED <<arch_vars, fin_vars, conc_vars>>

\* A chunk step that clears the file and saves nothing on a blank response
ChunkStep_dropping_on_blank(fresh) ==
    IF current_start <= number_of_chapters
    THEN LET current_end == Min(current_start + chunk_size - 1,
                                number_of_chapters)
             chapter_list == limit_chapter_blueprint(final_blueprint,
                                                     ContextLimit)
         IN  \E r \in OutlineResponses(current_start, current_end) :
                /\ limited_blueprint' = chapter_list
                /\ requests' = Append(requests,
                       [kind |-> "chunk", n |-> current_start,
                        m |-> current_end, chapter_list |-> chapter_list,
                        response |-> r])
                /\ IF IsBlank(r)
                   THEN /\ directory_file' = clear_file_content(directory_file)
                        /\ bp_pc' = "idle"
                        /\ bp_outcome' = "halted"
                        /\ UNCHANGED <<final_blueprint, current_start>>
                   ELSE /\ final_blueprint' =
                               IF fresh /\ Strip(final_blueprint) = <<>>
                               THEN Strip(r)
                               ELSE final_blueprint \o <<Ws, Ws>> \o Strip(r)
                        /\ directory_file' =
                               save_string_to_txt(Strip(final_blueprint'),
                                   clear_file_content(directory_file))
                        /\ current_start' = current_end + 1
                        /\ UNCHANGED <<bp_pc, bp_outcome>>
    ELSE /\ bp_pc' = "idle"
         /\ bp_outcome' = "completed"
         /\ UNCHANGED <<directory_file, final_blueprint, current_start,
                        limited_blueprint, requests>>

\* One pass of a chunk loop: the loop test, the range, the windowed
\* context, the call, and the blank or non-blank branch with its save.
\* fresh: the loop from scratch, which starts without a separator.
ChunkStep(fresh) ==
    IF current_start <= number_of_chapters
    THEN LET current_end == Min(current_start + chunk_size - 1,
                                number_of_chapters)
             chapter_list == limit_chapter_blueprint(final_blueprint,
                                                     ContextLimit)
         IN  \E r \in OutlineResponses(current_start, current_end) :
                /\ limited_blueprint' = chapter_list
                /\ requests' = Append(requests,
                       [kind |-> "chunk", n |-> current_start,
                        m |-> current_end, chapter_list |-> chapter_list,
                        response |-> r])
                /\ IF IsBlank(r)
                   THEN /\ directory_file' =
                               save_string_to_txt(Strip(final_blueprint),
                                   clear_file_content(directory_file))
                        /\ bp_pc' = "idle"
                        /\ bp_outcome' = "halted"
                        /\ UNCHANGED <<final_blueprint, current_start>>
                   ELSE /\ final_blueprint' =
                               IF fresh /\ Strip(final_blueprint) = <<>>
                               THEN Strip(r)
                               ELSE final_blueprint \o <<Ws, Ws>> \o Strip(r)
                        /\ directory_file' =
                               save_string_to_txt(Strip(final_blueprint'),
                                   clear_file_content(directory_file))
                        /\ current_start' = current_end + 1
                        /\ UNCHANGED <<bp_pc, bp_outcome>>
    ELSE /\ bp_pc' = "idle"
         /\ bp_outcome' = "completed"
         /\ UNCHANGED <<directory_file, final_blueprint, current_start,
                        limited_blueprint, requests>>

\* The loop that resumes an existing outline
ResumeChunk ==
    /\ bp_pc = "resume_loop"
    /\ ChunkStep(FALSE)
    /\ UNCHANGED <<number_of_chapters, max_tokens, chunk_size, bp0, arch_vars,
                   fin_vars, conc_vars>>

\* A single call that is issued with the prompt of the chunk loops
SingleShot_chunk_prompt ==
    /\ bp_pc = "single_shot"
    /\ \E r \in OutlineResponses(1, number_of_chapters) :
          /\ requests' = Append(requests,
                 [kind |-> "chunk", n |-> 1, m |-> number_of_chapters,
                  chapter_list |-> <<>>, response |-> r])
          /\ IF IsBlank(r)
             THEN /\ bp_outcome' = "halted"
                  /\ UNCHANGED directory_file
             ELSE /\ directory_file' =
                         save_string_to_txt(r, clear_file_content(directory_file))
                  /\ bp_outcome' = "completed"
    /\ bp_pc' = "idle"
    /\ UNCHANGED <<number_of_chapters, max_tokens, chunk_size, final_blueprint,
                   current_start, limited_blueprint, bp0, arch_vars, fin_vars,
                   conc_vars>>

\* The single call for the whole outline
SingleShot ==
    /\ bp_pc = "single_shot"
    /\ \E r \in OutlineResponses(1, number_of_chapters) :
          /\ requests' = Append(requests,
                 [kind |-> "single", n |-> 1, m |-> number_of_chapters,
                  chapter_list |-> <<>>, response |-> r])
          /\ IF IsBlank(r)
             THEN /\ bp_outcome' = "halted"
                  /\ UNCHANGED directory_file
             ELSE /\ directory_file' =
                         save_string_to_txt(r, clear_file_content(directory_file))
                  /\ bp_outcome' = "completed"
    /\ bp_pc' = "idle"
    /\ UNCHANGED <<number_of_chapters, max_tokens, chunk_size, final_blueprint,
                   current_start, limited_blueprint, bp0, arch_vars, fin_vars,
                   conc_vars>>

\* The chunked loop from scratch
FreshChunk ==
    /\ bp_pc = "chunk_loop"
    /\ ChunkStep(TRUE)
    /\ UNCHANGED <<number_of_chapters, max_tokens, chunk_size, bp0, arch_vars,
                   fin_vars, conc_vars>>

\* The process is terminated between two steps of an outline run
OutlineKill ==
    /\ bp_pc # "idle"
    /\ bp_pc' = "idle"
    /\ bp_outcome' = "killed"
    /\ UNCHANGED <<directory_file, number_of_chapters, max_tokens, chunk_size,
                   final_blueprint, current_start, limited_blueprint,
                   requests, bp0, arch_vars, fin_vars,
                   conc_vars>>

\* The process is terminated while a step rewrites Novel_directory.txt:
\* the call has returned r, clear_file_content has emptied the file and
\* save_string_to_txt has not run.  The loops rewrite the file whatever
\* the response, the single shot when the response is not blank.
OutlineKillDuringRewrite ==
    /\ \/ bp_pc \in {"resume_loop", "chunk_loop"}
          /\ current_start <= number_of_chapters
       \/ bp_pc = "single_shot"
    /\ LET n == IF bp_pc = "single_shot" THEN 1 ELSE current_start
           m == IF bp_pc = "single_shot" THEN number_of_chapters
                ELSE Min(current_start + chunk_size - 1, number_of_chapters)
           chapter_list == IF bp_pc = "single_shot" THEN <<>>
                           ELSE limit_chapter_blueprint(final_blueprint,
                                                        ContextLimit)
       IN  \E r \in OutlineResponses(n, m) :
              /\ bp_pc = "single_shot" => ~IsBlank(r)
              /\ requests' = Append(requests,
                     [kind |-> IF bp_pc = "single_shot" THEN "single"
                               ELSE "chunk",
                      n |-> n, m |-> m, chapter_list |-> chapter_list,
                      response |-> r])
              /\ limited_blueprint' = chapter_list
    /\ directory_file' = clear_file_content(directory_file)
    /\ bp_pc' = "idle"
    /\ bp_outcome' = "killed"
    /\ UNCHANGED <<number_of_chapters, max_tokens, chunk_size,
                   final_blueprint, current_start, bp0, arch_vars, fin_vars,
                   conc_vars>>

\* No outline run: the variables of Chapter_blueprint_generate at rest
BlueprintIdle ==
    /\ directory_file = NoFile
    /\ bp_pc = "idle"
    /\ number_of_chapters = 0
    /\ max_tokens = 0
    /\ chunk_size = 0
    /\ final_blueprint = <<>>
    /\ current_start = 0
    /\ limited_blueprint = <<>>
    /\ requests = <<>>
    /\ bp0 = NoFile
    /\ bp_outcome = "none"

----------------------------------------------------------------------------
(* The embedding backend and the Retry Wrapper *)

\* In the texts of the index a token is one character; Stop is a
\* sentence-final punctuation mark
Stop == [k |-> "stop", n |-> 0]

\* One invocation of a function of the embedding adapter: it returns its
\* value or raises
Returned(v) == [ok |-> TRUE, value |-> v]
Raised == [ok |-> FALSE, value |-> <<>>]

\* The successive invocations of an adapter function are modelled up to
\* MaxAttempts of them
MaxAttempts == 3

\* What the successive invocations of an adapter function that computes v
\* do, by the state of the backend
Invocations(v) ==
    IF backend = "up" THEN {[i \in 1..MaxAttempts |-> Returned(v)]}
    ELSE IF backend = "down" THEN {[i \in 1..MaxAttempts |-> Raised]}
    ELSE [1..MaxAttempts -> {Returned(v), Raised}]

\* common.call_with_retry: func is invoked until an invocation returns, at
\* most max_retries times; the fallback is returned when none does.
\* attempts: the number of invocations made; raised: whether an exception
\* left the wrapper.
call_with_retry(func, max_retries, fallback_return) ==
    LET succeeded == {i \in 1..max_retries : func[i].ok}
    IN  IF succeeded = {}
        THEN [attempts |-> max_retries, result |-> fallback_return,
              raised |-> FALSE]
        ELSE LET first == CHOOSE i \in succeeded : \A j \in succeeded : i <= j
             IN  [attempts |-> first, result |-> func[first].value,
                  raised |-> FALSE]

\* An embedding vector is a list; the vector of a text is identified by
\* the text
Vector(t) == <<t>>
Vectors(texts) == [i \in 1..Len(texts) |-> Vector(texts[i])]

\* An adapter wrapper that gives up after the first failure
embed_documents_once(func) == call_with_retry(func, 1, <<>>)

\* LCEmbeddingWrapper.embed_documents
embed_documents(func) == call_with_retry(func, 3, <<>>)

\* LCEmbeddingWrapper.embed_query
embed_query(func) == call_with_retry(func, 3, <<>>)

----------------------------------------------------------------------------
(* The persisted index: the directory and the entries of novel_collection *)

NoStore == [exists |-> FALSE, docs |-> <<>>]

\* Document(page_content = str(t)) with its embedding
Entry(t, v) == [page_content |-> t, embedding |-> v]

\* The result of an operation on the index: what it returned, whether an
\* exception left it, and the index after it
Result(returned, raised, store) ==
    [returned |-> returned, raised |-> raised, store |-> store]

\* None, and a handle on the collection of a directory
None == [handle |-> FALSE, docs |-> <<>>]
Handle(store) == [handle |-> TRUE, docs |-> store.docs]

\* A collection that holds the documents of the last addition only
Chroma_add_replacing(store, texts, e) ==
    IF Len(e.result) # Len(texts)
    THEN Result(None, TRUE, store)
    ELSE Result(Handle(store), FALSE,
                [store EXCEPT !.docs =
                    [i \in 1..Len(texts) |-> Entry(texts[i], e.result[i])]])

\* Chroma adds documents with the embeddings the wrapper returned for them;
\* it raises when it has not one embedding for each document
Chroma_add(store, texts, e) ==
    IF Len(e.result) # Len(texts)
    THEN Result(None, TRUE, store)
    ELSE Result(Handle(store), FALSE,
                [store EXCEPT !.docs =
                    @ \o [i \in 1..Len(texts) |-> Entry(texts[i], e.result[i])]])

\* try ... except Exception: the exception is logged and the fallback
\* value returned
Except(r, fallback) ==
    IF r.raised THEN Result(fallback, FALSE, r.store) ELSE r

\* An initialization that lets the exception of Chroma through
init_vector_store_unguarded(store, texts, func) ==
    Chroma_add([store EXCEPT !.exists = TRUE], texts, embed_documents(func))

\* init_vector_store: the directory is created, then, within try,
\* Chroma.from_documents embeds the documents through the wrapper and
\* persists them; None on any exception
init_vector_store(store, texts, func) ==
    Except(Chroma_add([store EXCEPT !.exists = TRUE], texts,
                      embed_documents(func)),
           None)

\* Whether Chroma opens the persisted collection or raises
OpenOutcomes == IF store_faults THEN {TRUE, FALSE} ELSE {TRUE}

\* A load that opens a collection where there is no directory
load_vector_store_creating(store, opens) ==
    IF opens THEN Result(Handle(store), FALSE,
                         [store EXCEPT !.exists = TRUE])
    ELSE Result(None, FALSE, store)

\* load_vector_store: None when the directory does not exist; otherwise,
\* within try, the collection is opened; None on any exception
load_vector_store(store, opens) ==
    IF ~store.exists THEN Result(None, FALSE, store)
    ELSE Except(IF opens THEN Result(Handle(store), FALSE, store)
                ELSE Result(None, TRUE, store),
                None)

----------------------------------------------------------------------------
(* The Text Segmenter of the index: split_text_for_vectorstore *)

\* The elements of a finite set of numbers in increasing order
SortedSeq(S) ==
    [k \in 1..Cardinality(S) |->
        CHOOSE i \in S : Cardinality({j \in S : j < i}) = k - 1]

\* nltk.sent_tokenize: a sentence ends with its punctuation mark or with
\* the text; the whitespace between sentences belongs to none
sent_tokenize(text) ==
    LET ends == SortedSeq({i \in 1..Len(text) : text[i] = Stop}
                          \cup (IF text = <<>> THEN {} ELSE {Len(text)}))
        piece(k) == Strip(SubSeq(text, IF k = 1 THEN 1 ELSE ends[k - 1] + 1,
                                 ends[k]))
    IN  SelectSeq([k \in 1..Len(ends) |-> piece(k)], LAMBDA s : s # <<>>)

\* " ".join(current_segment)
RECURSIVE JoinWith(_, _)
JoinWith(parts, sep) ==
    IF parts = <<>> THEN <<>>
    ELSE IF Len(parts) = 1 THEN parts[1]
    ELSE parts[1] \o sep \o JoinWith(Tail(parts), sep)

max_length == 500

\* A loop that does not emit the segment it is left with at the end
RECURSIVE Segments_lossy(_, _, _, _, _)
Segments_lossy(sentences, i, current_segment, current_length, final_segments) ==
    IF i > Len(sentences) THEN final_segments
    ELSE LET sentence == sentences[i]
             sentence_length == Len(sentence)
         IN  IF current_length + sentence_length > max_length
             THEN Segments_lossy(sentences, i + 1, <<sentence>>, sentence_length,
                      IF current_segment # <<>>
                      THEN Append(final_segments,
                                  JoinWith(current_segment, <<Ws>>))
                      ELSE final_segments)
             ELSE Segments_lossy(sentences, i + 1,
                      Append(current_segment, sentence),
                      current_length + sentence_length, final_segments)

\* The loop over the sentences from the i-th on: a sentence that would take
\* the summed sentence lengths beyond max_length closes the segment
RECURSIVE Segments(_, _, _, _, _)
Segments(sentences, i, current_segment, current_length, final_segments) ==
    IF i > Len(sentences)
    THEN IF current_segment # <<>>
         THEN Append(final_segments, JoinWith(current_segment, <<Ws>>))
         ELSE final_segments
    ELSE LET sentence == sentences[i]
             sentence_length == Len(sentence)
         IN  IF current_length + sentence_length > max_length
             THEN Segments(sentences, i + 1, <<sentence>>, sentence_length,
                      IF current_segment # <<>>
                      THEN Append(final_segments,
                                  JoinWith(current_segment, <<Ws>>))
                      ELSE final_segments)
             ELSE Segments(sentences, i + 1, Append(current_segment, sentence),
                           current_length + sentence_length, final_segments)

\* split_by_length: the text cut every max_length characters from start_idx
\* on, each piece stripped
RECURSIVE split_by_length_from(_, _)
split_by_length_from(text, start_idx) ==
    IF start_idx > Len(text) THEN <<>>
    ELSE LET end_idx == Min(start_idx + max_length - 1, Len(text))
         IN  <<Strip(SubSeq(text, start_idx, end_idx))>>
             \o split_by_length_from(text, end_idx + 1)

split_by_length(text) == split_by_length_from(text, 1)

\* split_text_for_vectorstore
split_text_for_vectorstore(chapter_text) ==
    IF Strip(chapter_text) = <<>> THEN <<>>
    ELSE LET sentences == sent_tokenize(chapter_text)
         IN  IF sentences = <<>> THEN <<>>
             ELSE Segments(sentences, 1, <<>>, 0, <<>>)

\* knowledge.advanced_split_content: the same loop, over the sentences of
\* the content of a knowledge file
advanced_split_content(content) ==
    LET sentences == sent_tokenize(content)
    IN  IF sentences = <<>> THEN <<>>
        ELSE Segments(sentences, 1, <<>>, 0, <<>>)

----------------------------------------------------------------------------
(* update, query and clear *)

\* update_vector_store: nothing without segments; a new index when none
\* loads; otherwise, within try, the segments are added to the loaded one.
\* It returns nothing (None)
update_vector_store(store, new_chapter, func, opens) ==
    LET splitted_texts == split_text_for_vectorstore(new_chapter)
        loaded == load_vector_store(store, opens)
    IN  IF splitted_texts = <<>> THEN Result(None, FALSE, store)
        ELSE IF loaded.raised THEN loaded
        ELSE IF loaded.returned = None
        THEN LET made == init_vector_store(loaded.store, splitted_texts, func)
             IN  Result(None, made.raised, made.store)
        ELSE Except(Chroma_add(loaded.store, splitted_texts,
                               embed_documents(func)),
                    None)

\* The orders in which a search may rank the entries of the index
Rankings(store) == Permutations(1..Len(store.docs))

\* store.similarity_search(query, k): the query is embedded through the
\* wrapper; Chroma raises on an empty embedding, and otherwise returns the
\* texts of the k entries ranked first
similarity_search(store, e, k, ranking) ==
    IF e.result = <<>> THEN Result(<<>>, TRUE, store)
    ELSE Result([i \in 1..Min(k, Len(store.docs)) |->
                    store.docs[ranking[i]].page_content],
                FALSE, store)

\* A retrieval that returns the joined texts whole
get_relevant_context_uncapped(store, k, func, opens, ranking) ==
    LET loaded == load_vector_store(store, opens)
        found == similarity_search(loaded.store, embed_query(func), k, ranking)
    IN  IF loaded.raised THEN loaded
        ELSE IF loaded.returned = None THEN Result(<<>>, FALSE, loaded.store)
        ELSE IF found.raised THEN Except(found, <<>>)
        ELSE Result(JoinWith(found.returned, <<Ws>>), FALSE, found.store)

\* get_relevant_context_from_vector_store: "" when no index loads; within
\* try, the texts found are joined with newlines and cut to 2000
\* characters; "" when nothing is found and on any exception
get_relevant_context_from_vector_store(store, k, func, opens, ranking) ==
    LET loaded == load_vector_store(store, opens)
        found == similarity_search(loaded.store, embed_query(func), k, ranking)
        combined == JoinWith(found.returned, <<Ws>>)
    IN  IF loaded.raised THEN loaded
        ELSE IF loaded.returned = None THEN Result(<<>>, FALSE, loaded.store)
        ELSE IF found.raised THEN Except(found, <<>>)
        ELSE IF found.returned = <<>> THEN found
        ELSE Result(IF Len(combined) > 2000 THEN SubSeq(combined, 1, 2000)
                    ELSE combined,
                    FALSE, found.store)

\* What shutil.rmtree does with the directory: it removes it, or raises
\* before it removed anything, or raises after it removed part of it
RmtreeOutcomes ==
    IF store_faults THEN {"removed", "failed", "failed_partial"}
    ELSE {"removed"}

\* A clear that reports success whatever rmtree did
clear_vector_store_always_true(store, o) ==
    IF ~store.exists THEN Result(FALSE, FALSE, store)
    ELSE IF o = "removed" THEN Result(TRUE, FALSE, NoStore)
    ELSE IF o = "failed" THEN Result(TRUE, FALSE, store)
    ELSE Result(TRUE, FALSE, [store EXCEPT !.docs = <<>>])

\* clear_vector_store: False when the directory does not exist; True when
\* rmtree removed it; False when rmtree raised, with what rmtree left
clear_vector_store(store, o) ==
    IF ~store.exists THEN Result(FALSE, FALSE, store)
    ELSE IF o = "removed" THEN Result(TRUE, FALSE, NoStore)
    ELSE IF o = "failed" THEN Result(FALSE, FALSE, store)
    ELSE Result(FALSE, FALSE, [store EXCEPT !.docs = <<>>])

----------------------------------------------------------------------------
(* finalize_chapter *)

\* utils.read_file: the whole text of the file, "" when there is none
read_file(f) == IF f.exists THEN f.text ELSE <<>>

\* Texts invoke_with_cleaning may return to finalize_chapter: a blank one
\* and two non-blank ones
FinResponses == {<<Ws>>, <<Tx(5)>>, <<Tx(6), Ws>>}

\* A check that lets every chapter through
chapter_is_empty_never(chapter_text) == FALSE

\* `if not chapter_text`, of the stripped text of the chapter
chapter_is_empty(chapter_text) == chapter_text = <<>>

\* A result that is kept even when it is blank
new_or_old_keeping_blank(new, old) == new

\* `if not new.strip(): new = old`: a blank result leaves the old text
new_or_old(new, old) == IF IsBlank(new) THEN old ELSE new

\* The chapters directory: chapter 1 is missing, chapter 2 is blank,
\* chapter 3 has one sentence and chapter 4 two
ChaptersDir ==
    <<NoFile,
      File(<<Ws>>),
      File(<<Tx(1), Stop>>),
      File(<<Ws, Tx(2), Stop, Ws, Tx(3), Stop, Ws>>)>>

\* The entries the index is modelled up to
MaxIndexDocs == 2

\* The record of an operation: its name, its inputs, its result, the
\* generation calls it issued, and the index and the two documents as it
\* found them
Op(name, in, r, gen) ==
    [op |-> name, in |-> in, r |-> r, gen |-> gen, store0 |-> vectorstore,
     summary0 |-> global_summary_file, state0 |-> character_state_file]

NoOp ==
    [op |-> "none", in |-> <<>>, r |-> Result(None, FALSE, NoStore),
     gen |-> <<>>, store0 |-> NoStore, summary0 |-> NoFile,
     state0 |-> NoFile]

\* finalize_chapter: nothing for a chapter without text; otherwise the
\* summary and the character state are generated from the chapter and the
\* old documents, a blank result standing for the old text, both documents
\* are overwritten, and the chapter is put into the index
finalize_chapter(novel_number, rs, rc, func, opens) ==
    LET chapter_text == Strip(read_file(chapters_dir[novel_number]))
        old_global_summary == read_file(global_summary_file)
        old_character_state == read_file(character_state_file)
        prompt_summary == Prompt("summary_prompt",
                                 <<chapter_text, old_global_summary>>)
        new_global_summary == new_or_old(rs, old_global_summary)
        prompt_char_state == Prompt("update_character_state_prompt",
                                    <<chapter_text, old_character_state>>)
        new_char_state == new_or_old(rc, old_character_state)
        indexed == update_vector_store(vectorstore, chapter_text, func, opens)
    IN  IF chapter_is_empty(chapter_text)
        THEN /\ last' = Op("finalize_chapter",
                           [novel_number |-> novel_number],
                           Result(None, FALSE, vectorstore), <<>>)
             /\ UNCHANGED <<vectorstore, global_summary_file,
                            character_state_file>>
        ELSE /\ global_summary_file' =
                    save_string_to_txt(new_global_summary,
                        clear_file_content(global_summary_file))
             /\ character_state_file' =
                    save_string_to_txt(new_char_state,
                        clear_file_content(character_state_file))
             /\ vectorstore' = indexed.store
             /\ last' = Op("finalize_chapter",
                           [novel_number |-> novel_number], indexed,
                           <<[prompt |-> prompt_summary, response |-> rs],
                             [prompt |-> prompt_char_state, response |-> rc]>>)

----------------------------------------------------------------------------
(* The operations on the index and the finalization as actions *)

\* The texts a knowledge import hands to init_vector_store
Paragraphs == {<<<<Tx(7)>>>>, <<<<Tx(7)>>, <<Tx(8), Stop>>>>}

\* The texts the index is queried for, and the numbers of results asked
Queries == {<<Tx(9)>>}
MaxK == 2

\* The variables of the other components, and the character state with them
arch_rest == <<partial_file, arch_file, pc, topic, partial_data, calls,
               run0, outcome, wrote_final, io_faults>>

InitVectorStore ==
    \E texts \in Paragraphs :
      \E func \in Invocations(Vectors(texts)) :
        LET r == init_vector_store(vectorstore, texts, func)
        IN  /\ Len(vectorstore.docs) + Len(texts) <= MaxIndexDocs
            /\ vectorstore' = r.store
            /\ last' = Op("init_vector_store",
                          [texts |-> texts], r, <<>>)
            /\ UNCHANGED <<global_summary_file, chapters_dir, backend,
                           store_faults, arch_vars, bp_vars, conc_vars>>

LoadVectorStore ==
    \E opens \in OpenOutcomes :
        LET r == load_vector_store(vectorstore, opens)
        IN  /\ vectorstore' = r.store
            /\ last' = Op("load_vector_store", <<>>, r, <<>>)
            /\ UNCHANGED <<global_summary_file, chapters_dir, backend,
                           store_faults, arch_vars, bp_vars, conc_vars>>

UpdateVectorStore ==
    \E n \in 1..Len(chapters_dir), opens \in OpenOutcomes :
      LET new_chapter == Strip(read_file(chapters_dir[n]))
          texts == split_text_for_vectorstore(new_chapter)
      IN  \E func \in Invocations(Vectors(texts)) :
            LET r == update_vector_store(vectorstore, new_chapter, func, opens)
            IN  /\ Len(vectorstore.docs) + Len(texts) <= MaxIndexDocs
                /\ vectorstore' = r.store
                /\ last' = Op("update_vector_store",
                              [new_chapter |-> new_chapter], r, <<>>)
                /\ UNCHANGED <<global_summary_file, chapters_dir, backend,
                               store_faults, arch_vars, bp_vars, conc_vars>>

Query ==
    \E query \in Queries, k \in 1..MaxK, opens \in OpenOutcomes,
       ranking \in Rankings(vectorstore) :
      \E func \in Invocations(Vector(query)) :
        LET r == get_relevant_context_from_vector_store(vectorstore, k, func,
                                                        opens, ranking)
        IN  /\ vectorstore' = r.store
            /\ last' = Op("get_relevant_context_from_vector_store",
                          [query |-> query, k |-> k, ranking |-> ranking],
                          r, <<>>)
            /\ UNCHANGED <<global_summary_file, chapters_dir, backend,
                           store_faults, arch_vars, bp_vars, conc_vars>>

ClearVectorStore ==
    \E o \in RmtreeOutcomes :
        LET r == clear_vector_store(vectorstore, o)
        IN  /\ vectorstore' = r.store
            /\ last' = Op("clear_vector_store", <<>>, r, <<>>)
            /\ UNCHANGED <<global_summary_file, chapters_dir, backend,
                           store_faults, arch_vars, bp_vars, conc_vars>>

Finalize ==
    \E novel_number \in 1..Len(chapters_dir), rs \in FinResponses,
       rc \in FinResponses, opens \in OpenOutcomes :
      LET texts == split_text_for_vectorstore(
                       Strip(read_file(chapters_dir[novel_number])))
      IN  \E func \in Invocations(Vectors(texts)) :
            /\ Len(vectorstore.docs) + Len(texts) <= MaxIndexDocs
            /\ finalize_chapter(novel_number, rs, rc, func, opens)
            /\ UNCHANGED <<chapters_dir, backend, store_faults, arch_rest,
                           bp_vars, conc_vars>>

\* No operation on the index yet and no finalization
FinIdle ==
    /\ vectorstore = NoStore
    /\ global_summary_file = NoFile
    /\ chapters_dir = ChaptersDir
    /\ backend = "up"
    /\ store_faults = FALSE
    /\ last = NoOp

----------------------------------------------------------------------------
(* Specifications *)

ArchNext ==
    \/ ArchStart
    \/ Step1
    \/ Step2
    \/ StepCharacterState
    \/ Step3
    \/ Step4
    \/ WriteFinal
    \/ RemovePartial

Init == ArchInit /\ io_faults = FALSE /\ BlueprintIdle /\ FinIdle

Next == ArchNext

\* The Stage Sequencer with a durable store whose writes succeed
Spec == Init /\ [][Next]_vars

\* The architecture documents an outline run may find
SampleData == [k \in Stages |-> <<Tx(1)>>]

ArchDocs == {NoFile, File(<<>>), File(<<Ws>>), File(final_content(SampleData, 1))}

\* The outline documents an outline run may find: none, or the entry of
\* chapter 1
DirectoryDocs == {NoFile, File(Chapters(1, 1))}

OutlineInit ==
    /\ ArchIdle
    /\ arch_file \in ArchDocs
    /\ io_faults = FALSE
    /\ directory_file \in DirectoryDocs
    /\ bp_pc = "idle"
    /\ number_of_chapters = 0
    /\ max_tokens = 0
    /\ chunk_size = 0
    /\ final_blueprint = <<>>
    /\ current_start = 0
    /\ limited_blueprint = <<>>
    /\ requests = <<>>
    /\ bp0 = directory_file
    /\ bp_outcome = "none"
    /\ FinIdle

OutlineNext ==
    \/ BlueprintStart
    \/ ResumeChunk
    \/ SingleShot
    \/ FreshChunk

\* The Chunked Outline Controller
SpecOutline == OutlineInit /\ [][OutlineNext]_vars

\* The Chunked Outline Controller with a process that may be terminated at
\* any point of a run and is then invoked again
OutlineCrashNext ==
    \/ OutlineNext
    \/ OutlineKill
    \/ OutlineKillDuringRewrite

SpecOutlineCrash == OutlineInit /\ [][OutlineCrashNext]_vars

\* compute_chunk_size on its own: the inputs are drawn at the start and
\* the function is applied once
MaxTotal == 45
MaxBudgetSteps == 20

ChapterTotals == 1..MaxTotal \cup {250}

Budgets ==
    {100 + 499 * i : i \in 0..MaxBudgetSteps}
    \cup {1999, 2000, 3999, 4000, 4096}

ChunkInit ==
    /\ ArchInit
    /\ io_faults = FALSE
    /\ directory_file = NoFile
    /\ bp_pc = "compute"
    /\ number_of_chapters \in ChapterTotals
    /\ max_tokens \in Budgets
    /\ chunk_size = 0
    /\ final_blueprint = <<>>
    /\ current_start = 0
    /\ limited_blueprint = <<>>
    /\ requests = <<>>
    /\ bp0 = NoFile
    /\ bp_outcome = "none"
    /\ FinIdle

ComputeChunk ==
    /\ bp_pc = "compute"
    /\ chunk_size' = compute_chunk_size(number_of_chapters, max_tokens)
    /\ bp_pc' = "computed"
    /\ UNCHANGED <<directory_file, number_of_chapters, max_tokens,
                   final_blueprint, current_start, limited_blueprint,
                   requests, bp0, bp_outcome, arch_vars, fin_vars, conc_vars>>

ChunkNext == ComputeChunk

SpecChunk == ChunkInit /\ [][ChunkNext]_vars

\* limit_chapter_blueprint on its own, applied as the chunk loops apply it:
\* to an accumulated outline, with the limit 100.  The outlines are text
\* accepted without marker or nothing, followed by the entries of up to
\* MaxEntries chapters numbered from 1 or from 2.
MaxEntries == 103

Outlines ==
    {lead \o Chapters(first, first + count - 1) :
        lead \in {<<>>, <<Tx(2), Ws, Ws>>},
        first \in {1, 2},
        count \in 0..MaxEntries}

WindowInit ==
    /\ ArchInit
    /\ io_faults = FALSE
    /\ directory_file = NoFile
    /\ bp_pc = "window"
    /\ number_of_chapters = 0
    /\ max_tokens = 0
    /\ chunk_size = 0
    /\ final_blueprint \in Outlines
    /\ current_start = 0
    /\ limited_blueprint = <<>>
    /\ requests = <<>>
    /\ bp0 = NoFile
    /\ bp_outcome = "none"
    /\ FinIdle

LimitWindow ==
    /\ bp_pc = "window"
    /\ limited_blueprint' = limit_chapter_blueprint(final_blueprint, ContextLimit)
    /\ bp_pc' = "windowed"
    /\ UNCHANGED <<directory_file, number_of_chapters, max_tokens, chunk_size,
                   final_blueprint, current_start, requests, bp0, bp_outcome,
                   arch_vars, fin_vars, conc_vars>>

WindowNext == LimitWindow

SpecWindow == WindowInit /\ [][WindowNext]_vars

\* The Stage Sequencer with writes of the progress record that may fail:
\* the first run in an empty project
InitIO == ArchInit /\ io_faults = TRUE /\ BlueprintIdle /\ FinIdle

FirstRun == outcome = "none" /\ ArchStart

NextIO ==
    \/ FirstRun
    \/ Step1
    \/ Step2
    \/ StepCharacterState
    \/ Step3
    \/ Step4
    \/ WriteFinal
    \/ RemovePartial

SpecIO == InitIO /\ [][NextIO]_vars

\* The Stage Sequencer with a process that may be terminated at any point
\* of a run and is then invoked again
NextCrash ==
    \/ Next
    \/ Kill
    \/ KillDuringSave

SpecCrash == Init /\ [][NextCrash]_vars

\* The Vector Index Manager: its operations in any order, with a backend
\* that answers, fails or does either, and a directory that may or may not
\* resist being opened or deleted
\* The index an operation may find: none, an empty one, one with an entry
PersistedStores ==
    {NoStore,
     [exists |-> TRUE, docs |-> <<>>],
     [exists |-> TRUE, docs |-> <<Entry(<<Tx(7)>>, Vector(<<Tx(7)>>))>>]}

IndexInit ==
    /\ ArchInit
    /\ io_faults = FALSE
    /\ BlueprintIdle
    /\ vectorstore \in PersistedStores
    /\ global_summary_file = NoFile
    /\ chapters_dir = ChaptersDir
    /\ backend \in {"up", "down", "flaky"}
    /\ store_faults \in BOOLEAN
    /\ last = NoOp

IndexNext ==
    \/ InitVectorStore
    \/ LoadVectorStore
    \/ UpdateVectorStore
    \/ Query
    \/ ClearVectorStore

SpecIndex == IndexInit /\ [][IndexNext]_vars

\* The Finalization Controller with the operations on the index, with a
\* backend that answers every call or none
FinalizeInit == IndexInit /\ backend \in {"up", "down"}

FinalizeNext ==
    \/ Finalize
    \/ IndexNext

SpecFinalize == FinalizeInit /\ [][FinalizeNext]_vars

\* Retrieval on its own, from indexes whose entries are long: the i-th
\* entry is a text of 1, 999, 1000 or MaxDocLen characters
MaxDocLen == 2001

DocLengths == {1, 999, 1000, MaxDocLen}

LongText(i, n) == [j \in 1..n |-> Tx(i)]

LongStores ==
    {[exists |-> TRUE,
      docs |-> [i \in 1..count |->
                   Entry(LongText(i, lens[i]), Vector(LongText(i, lens[i])))]] :
        count \in 0..MaxIndexDocs, lens \in [1..MaxIndexDocs -> DocLengths]}
    \cup {NoStore}

QueryInit ==
    /\ ArchInit
    /\ io_faults = FALSE
    /\ BlueprintIdle
    /\ vectorstore \in LongStores
    /\ global_summary_file = NoFile
    /\ chapters_dir = ChaptersDir
    /\ backend \in {"up", "down", "flaky"}
    /\ store_faults \in BOOLEAN
    /\ last = NoOp

QueryNext == Query

SpecQuery == QueryInit /\ [][QueryNext]_vars

\* The wrapped adapter calls on their own: an adapter function whose
\* successive invocations raise or return one of three values
AdapterValues ==
    {Vectors(<<<<Tx(7)>>>>), Vectors(<<<<Tx(8)>>>>),
     Vectors(<<<<Tx(7)>>, <<Tx(8)>>>>)}

AdapterFunctions ==
    [1..MaxAttempts -> {Raised} \cup {Returned(v) : v \in AdapterValues}]

RetryInit ==
    /\ ArchInit
    /\ io_faults = FALSE
    /\ BlueprintIdle
    /\ vectorstore = NoStore
    /\ global_summary_file = NoFile
    /\ chapters_dir = ChaptersDir
    /\ backend = "flaky"
    /\ store_faults = FALSE
    /\ \E func \in AdapterFunctions :
           last = [NoOp EXCEPT !.op = "pending", !.in = [func |-> func]]

EmbedDocuments ==
    /\ last.op = "pending"
    /\ last' = [last EXCEPT !.op = "embed_documents",
                            !.r = embed_documents(last.in.func)]
    /\ UNCHANGED <<vectorstore, global_summary_file, chapters_dir, backend,
                   store_faults, arch_vars, bp_vars, conc_vars>>

EmbedQuery ==
    /\ last.op = "pending"
    /\ last' = [last EXCEPT !.op = "embed_query",
                            !.r = embed_query(last.in.func)]
    /\ UNCHANGED <<vectorstore, global_summary_file, chapters_dir, backend,
                   store_faults, arch_vars, bp_vars, conc_vars>>

RetryNext ==
    \/ EmbedDocuments
    \/ EmbedQuery

SpecRetry == RetryInit /\ [][RetryNext]_vars

\* Two processes run the Stage Sequencer on one project directory, each
\* invoking it once; the scheduler switches between them up to MaxSwitches
\* times
ConcurrentNext ==
    \/ FirstRun
    \/ Step1
    \/ Step2
    \/ StepCharacterState
    \/ Step3
    \/ Step4
    \/ WriteFinal
    \/ RemovePartial
    \/ Switch

SpecConcurrent == Init /\ [][ConcurrentNext]_vars

\* The Stage Sequencer with a caller that invokes it again after every run
\* that halted, until a run completes.  A run that has started goes on
\* (weak fairness of its steps); a generation call that is issued again
\* and again returns non-blank text at some time (strong fairness of the
\* steps that pass a stage).
Reinvoke == outcome \in {"none", "halted"} /\ ArchStart

NextLive ==
    \/ Reinvoke
    \/ Step1
    \/ Step2
    \/ StepCharacterState
    \/ Step3
    \/ Step4
    \/ WriteFinal
    \/ RemovePartial

FairLive ==
    /\ WF_vars(NextLive)
    /\ SF_vars(Step1 /\ pc' = "step2")
    /\ SF_vars(Step2 /\ pc' = "char_state")
    /\ SF_vars(StepCharacterState /\ pc' = "step3")
    /\ SF_vars(Step3 /\ pc' = "step4")
    /\ SF_vars(Step4 /\ pc' = "write_final")

SpecLive == Init /\ [][NextLive]_vars /\ FairLive

\* The Text Segmenter on its own: texts of up to MaxSentences sentences of
\* 2 to 501 characters, each but the shortest with a space after its first
\* character, separated by one space; with or without whitespace around
\* the text, and with or without the punctuation of the last sentence
MaxSentences == 3

SentenceLengths == {2, 250, 251, 500, 501}

Sentence(i, n) ==
    [j \in 1..n |-> IF j = n THEN Stop
                    ELSE IF j = 2 /\ n > 3 THEN Ws
                    ELSE Tx(i)]

SegmenterTexts ==
    {LET body == JoinWith([i \in 1..count |-> Sentence(i, lens[i])], <<Ws>>)
     IN  pad \o (IF unfinished /\ body # <<>>
                 THEN SubSeq(body, 1, Len(body) - 1)
                 ELSE body) \o pad :
        count \in 0..MaxSentences,
        lens \in [1..MaxSentences -> SentenceLengths],
        pad \in {<<>>, <<Ws>>},
        unfinished \in BOOLEAN}

SegmentInit ==
    /\ ArchInit
    /\ io_faults = FALSE
    /\ BlueprintIdle
    /\ vectorstore = NoStore
    /\ global_summary_file = NoFile
    /\ chapters_dir = ChaptersDir
    /\ backend = "up"
    /\ store_faults = FALSE
    /\ \E text \in SegmenterTexts :
           last = [NoOp EXCEPT !.op = "pending", !.in = [text |-> text]]

SplitTextForVectorstore ==
    /\ last.op = "pending"
    /\ Has(last.in, "text")
    /\ last' = [last EXCEPT
                   !.op = "split_text_for_vectorstore",
                   !.r = Result(split_text_for_vectorstore(last.in.text),
                                FALSE, NoStore)]
    /\ UNCHANGED <<vectorstore, global_summary_file, chapters_dir, backend,
                   store_faults, arch_vars, bp_vars, conc_vars>>

AdvancedSplitContent ==
    /\ last.op = "pending"
    /\ Has(last.in, "text")
    /\ last' = [last EXCEPT
                   !.op = "advanced_split_content",
                   !.r = Result(advanced_split_content(last.in.text),
                                FALSE, NoStore)]
    /\ UNCHANGED <<vectorstore, global_summary_file, chapters_dir, backend,
                   store_faults, arch_vars, bp_vars, conc_vars>>

SegmentNext ==
    \/ SplitTextForVectorstore
    \/ AdvancedSplitContent

SpecSegment == SegmentInit /\ [][SegmentNext]_vars

----------------------------------------------------------------------------
(* Properties of the Stage Sequencer *)

\* s occurs in t as a contiguous piece
Contains(t, s) ==
    \E i \in 0..(Len(t) - Len(s)) : SubSeq(t, i + 1, i + Len(s)) = s

\* s is the end of t
EndsWith(t, s) ==
    Len(s) <= Len(t) /\ SubSeq(t, Len(t) - Len(s) + 1, Len(t)) = s

\* The entries of a progress file (none when absent or unparsable)
Entries(f) == IF f.state = "ok" THEN f.data ELSE <<>>

\* The entries the run found on disk when it started
Found == Entries(run0.partial_file)

\* The stages the run has issued a generation call for
Called == {calls[i].stage : i \in DOMAIN calls}

\* A text with no character other than whitespace
AllWhitespace(t) == \A i \in DOMAIN t : t[i] = Ws

NoBlankResponse == \A i \in DOMAIN calls : ~AllWhitespace(calls[i].response)

\* The run has passed its last stage
PastStages == pc \in {"write_final", "remove_partial"} \/ outcome = "completed"

\* The section of the document under header h, closed by the tokens close
HasSection(doc, h, text, close) == Contains(doc, <<h, Ws>> \o text \o close)

\* C1 (resumability): in a run in which no generation call has returned
\* blank text, a call is issued for no stage whose entry was in the progress
\* record found on disk, once each for the others, and when the stages are
\* passed exactly for the stages that were absent; every entry found keeps
\* its text in the in-memory record, in the record file after every save
\* and in the final document.
C1_Resumability ==
    (outcome \in {"running", "completed"} /\ NoBlankResponse) =>
        /\ Called \cap DOMAIN Found = {}
        /\ Cardinality(Called) = Len(calls)
        /\ PastStages => Called = Stages \ DOMAIN Found
        /\ \A k \in DOMAIN Found :
              /\ Has(partial_data, k) /\ partial_data[k] = Found[k]
              /\ partial_file.state = "ok" =>
                    Has(partial_file.data, k) /\ partial_file.data[k] = Found[k]
        /\ wrote_final =>
              /\ Has(Found, "core_seed_result") =>
                    HasSection(arch_file.text, Hd(1),
                               Found["core_seed_result"], <<Ws, Ws, Hd(2)>>)
              /\ Has(Found, "character_dynamics_result") =>
                    HasSection(arch_file.text, Hd(2),
                               Found["character_dynamics_result"],
                               <<Ws, Ws, Hd(3)>>)
              /\ Has(Found, "world_building_result") =>
                    HasSection(arch_file.text, Hd(3),
                               Found["world_building_result"],
                               <<Ws, Ws, Hd(4)>>)
              /\ Has(Found, "plot_arch_result") =>
                    EndsWith(arch_file.text,
                             <<Ws, Ws, Hd(4), Ws>>
                             \o Found["plot_arch_result"] \o <<Ws>>)

\* A run resumed from a record holding the first two stages has completed
\* after three calls
C1_Witness ==
    /\ outcome = "completed"
    /\ DOMAIN Found = {"core_seed_result", "character_dynamics_result"}
    /\ Len(calls) = 3

\* C2 (idempotent completion): a run that found Novel_architecture.txt and
\* no partial_architecture.json issues no generation call and changes none
\* of the three durable files.
C2_IdempotentCompletion ==
    (outcome # "none" /\ run0.arch_file.exists
                      /\ run0.partial_file.state = "absent") =>
        /\ calls = <<>>
        /\ arch_file = run0.arch_file
        /\ character_state_file = run0.character_state_file
        /\ partial_file = run0.partial_file

\* C8 (blank response): a generation call that returned blank text is the
\* last call of its run and the run has returned; its stage has no entry in
\* the record, in memory or on disk; the final document is not written; the
\* record file holds the entries it held when the call was issued.
C8_BlankHalts ==
    \A i \in DOMAIN calls :
        AllWhitespace(calls[i].response) =>
            /\ i = Len(calls)
            /\ pc = "idle" /\ outcome = "halted"
            /\ ~Has(partial_data, calls[i].stage)
            /\ ~Has(Entries(partial_file), calls[i].stage)
            /\ ~wrote_final /\ arch_file = run0.arch_file
            /\ Entries(partial_file) = Entries(calls[i].file_before)

\* A run has halted at the world-building stage, after two accepted stages
C8_Witness ==
    /\ outcome = "halted"
    /\ Len(calls) = 4
    /\ calls[4].stage = "world_building_result"
    /\ AllWhitespace(calls[4].response)
    /\ DOMAIN Entries(partial_file) =
           {"core_seed_result", "character_dynamics_result",
            "character_state_result"}

\* The four results in their fixed order, each under its header
RECURSIVE Sections(_, _)
Sections(d, hs) ==
    IF hs = <<>> THEN <<>>
    ELSE <<Head(hs)[1], Ws>> \o d[Head(hs)[2]]
         \o (IF Len(hs) > 1 THEN <<Ws, Ws>> ELSE <<Ws>>)
         \o Sections(d, Tail(hs))

Document(d, t) ==
    <<Hd(0), Ws, Tp(t), Ws, Ws>>
    \o Sections(d, << <<Hd(1), "core_seed_result">>,
                      <<Hd(2), "character_dynamics_result">>,
                      <<Hd(3), "world_building_result">>,
                      <<Hd(4), "plot_arch_result">> >>)

\* C10 (completion): the final document is written only with the entries
\* of the four primary stages present and holds them in the fixed order
\* under the fixed headers; a completed run has written it and left no
\* record file; and no step removes the record file unless the run has
\* written the final document before.
C10_StateInv ==
    /\ pc = "write_final" => PrimaryStages \subseteq DOMAIN partial_data
    /\ wrote_final =>
          /\ PrimaryStages \subseteq DOMAIN partial_data
          /\ arch_file = File(Document(partial_data, topic))
    /\ outcome = "completed" => wrote_final /\ partial_file.state = "absent"

C10_Completion ==
    /\ []C10_StateInv
    /\ [][(partial_file.state # "absent" /\ partial_file'.state = "absent")
            => (wrote_final /\ pc = "remove_partial"
                /\ arch_file = File(Document(partial_data, topic)))]_vars

\* A run that generated all five stages has written the document and
\* removed the record file
C10_Witness ==
    /\ outcome = "completed"
    /\ Len(calls) = 5
    /\ partial_file.state = "absent"
    /\ arch_file.exists

----------------------------------------------------------------------------
(* Properties of the Chunked Outline Controller *)

IsMarker(x) == x.k = "mark"

IsText(x) == x.k # "ws"

\* The tokens of a text other than whitespace
NonWs(t) == SelectSeq(t, IsText)

\* The chapter-index markers of a text, in order of occurrence
MarkerList(t) ==
    LET ms == SelectSeq(t, IsMarker) IN [i \in DOMAIN ms |-> ms[i].n]

\* The sequence a, a+1, .., b
Run(a, b) == [i \in 1..(b - a + 1) |-> a + i - 1]

\* The highest marker of a text is h (0: the text has no marker)
IsHighest(t, h) ==
    /\ \A i \in DOMAIN t : IsMarker(t[i]) => t[i].n <= h
    /\ h = 0 \/ \E i \in DOMAIN t : IsMarker(t[i]) /\ t[i].n = h

\* The last run went through a chunk loop and left it by the loop test
LoopCompleted ==
    /\ bp_outcome = "completed"
    /\ \A i \in DOMAIN requests : requests[i].kind = "chunk"

\* Every response of the run is the entries of its range: it begins, after
\* whitespace, with a marker and holds exactly the markers n..m
FaithfulResponses ==
    \A i \in DOMAIN requests :
        /\ MarkerList(requests[i].response) = Run(requests[i].n, requests[i].m)
        /\ NonWs(requests[i].response) # <<>>
        /\ IsMarker(NonWs(requests[i].response)[1])

\* The outline the run found has the markers 1..k for a k within the total
ContiguousStart ==
    \E k \in 0..number_of_chapters : MarkerList(bp0.text) = Run(1, k)

\* C3 as stated (outline contiguity): after a run that ended by loop
\* completion the markers of Novel_directory.txt are exactly
\* 1..number_of_chapters, each once.
C3_Contiguity_AsStated ==
    LoopCompleted =>
        MarkerList(directory_file.text) = Run(1, number_of_chapters)

\* C3 as amended: the same, for a run whose responses each are the entries
\* of the requested range, every entry under its marker, and that started
\* from an outline whose markers are 1..k, k <= number_of_chapters (k = 0:
\* no marker).
C3_Contiguity ==
    (LoopCompleted /\ FaithfulResponses /\ ContiguousStart) =>
        MarkerList(directory_file.text) = Run(1, number_of_chapters)

\* A resumed run has completed the outline in two chunks
C3_Witness ==
    /\ LoopCompleted /\ FaithfulResponses /\ ContiguousStart
    /\ MarkerList(bp0.text) # <<>>
    /\ Len(requests) = 2

\* C4 (resume detection): a run that found a non-empty Novel_directory.txt
\* requests first the chunk that starts one above the highest marker found
\* (at 1 without marker), requests no chunk that starts at or below that
\* marker, and, the marker being at least number_of_chapters, issues no
\* call and leaves the file as it was.
C4_ResumeDetection ==
    (bp_outcome \in {"running", "halted", "completed"}
        /\ bp0.exists /\ bp0.text # <<>>) =>
        \E h \in 0..(Len(bp0.text) + LongNovel + 1) :
            /\ IsHighest(bp0.text, h)
            /\ requests # <<>> => requests[1].n = h + 1
            /\ \A i \in DOMAIN requests : requests[i].n > h
            /\ h >= number_of_chapters =>
                  requests = <<>> /\ directory_file = bp0

\* A run resumed above a ten-chapter outline has asked for chapter 11 on
C4_Witness ==
    /\ bp_outcome = "completed"
    /\ IsHighest(bp0.text, 10)
    /\ number_of_chapters = LongNovel
    /\ requests # <<>> /\ requests[1].n = 11

\* The non-blank texts among parts occur in t one after another, from
\* position from on, the first of them at position from when anchored
RECURSIVE InOrder(_, _, _, _, _)
InOrder(t, from, parts, i, anchored) ==
    IF i > Len(parts) THEN TRUE
    ELSE IF parts[i] = <<>> THEN InOrder(t, from, parts, i + 1, anchored)
    ELSE \E q \in from..(Len(t) - Len(parts[i]) + 1) :
            /\ anchored => q = from
            /\ SubSeq(t, q, q + Len(parts[i]) - 1) = parts[i]
            /\ InOrder(t, q + Len(parts[i]), parts, i + 1, FALSE)

\* The outline found by the run and the responses it accepted, stripped
Accumulated ==
    <<Strip(bp0.text)>>
    \o [i \in 1..(Len(requests) - 1) |-> Strip(requests[i].response)]

\* C9 (blank chunk): a call that returned blank text is the last call of
\* its run and the run has returned; Novel_directory.txt then begins with
\* the outline the run found and holds after it, in order, every chunk the
\* run accepted.
C9_BlankHalts ==
    \A i \in DOMAIN requests :
        AllWhitespace(requests[i].response) =>
            /\ i = Len(requests)
            /\ bp_pc = "idle" /\ bp_outcome = "halted"
            /\ directory_file.exists
            /\ InOrder(directory_file.text, 1, Accumulated, 1,
                       Strip(bp0.text) # <<>>)

\* A resumed run has accepted a chunk and halted at the next one
C9_Witness ==
    /\ bp_outcome = "halted"
    /\ Len(requests) = 2
    /\ Strip(bp0.text) # <<>>
    /\ AllWhitespace(requests[2].response)

----------------------------------------------------------------------------
(* Properties of compute_chunk_size and limit_chapter_blueprint *)

\* C5 (chunk-size bounds): for number_of_chapters >= 1 and max_tokens >= 100
\* the computed chunk size lies between 1 and number_of_chapters.
C5_ChunkSizeBounds ==
    (bp_pc = "computed" /\ number_of_chapters >= 1 /\ max_tokens >= 100) =>
        (1 <= chunk_size /\ chunk_size <= number_of_chapters)

\* The upper clamp has cut a chunk size down to a total above 1
C5_Witness ==
    /\ bp_pc = "computed"
    /\ number_of_chapters > 1
    /\ chunk_size = number_of_chapters
    /\ max_tokens >= 6000

Clamp(x, lo, hi) == IF x < lo THEN lo ELSE IF x > hi THEN hi ELSE x

C7_WindowCap ==
    bp_pc = "windowed" =>
        LET all == MarkerList(final_blueprint)
            kept == MarkerList(limited_blueprint)
        IN  /\ Len(kept) <= 100
            /\ Len(all) > 100 =>
                  /\ kept = SubSeq(all, Len(all) - 99, Len(all))
                  /\ IsMarker(limited_blueprint[1])
                  /\ EndsWith(NonWs(final_blueprint), NonWs(limited_blueprint))

\* An outline of 102 entries has been cut to its last 100
C7_Witness ==
    /\ bp_pc = "windowed"
    /\ Len(MarkerList(final_blueprint)) = 102
    /\ Len(MarkerList(limited_blueprint)) = 100
    /\ limited_blueprint[1] = Mark(3)

\* C18 - Outline precondition: when Novel_architecture.txt does not exist
\* or is empty or blank, Chapter_blueprint_generate issues no generation
\* call and neither creates nor modifies Novel_directory.txt.
C18_OutlinePrecondition ==
    (bp_outcome # "none" /\ (~arch_file.exists \/ IsBlank(arch_file.text))) =>
        /\ bp_outcome = "noop"
        /\ bp_pc = "idle"
        /\ requests = <<>>
        /\ directory_file = bp0

\* A run that found a blank architecture document and an outline document
C18_Witness ==
    /\ bp_outcome = "noop"
    /\ arch_file.exists
    /\ arch_file.text # <<>>
    /\ IsBlank(arch_file.text)
    /\ directory_file.exists
    /\ directory_file = bp0

----------------------------------------------------------------------------
(* Properties of the Vector Index Manager *)

\* The texts a search ranked first, as the last retrieval found them
FoundTexts ==
    [i \in 1..Min(last.in.k, Len(last.store0.docs)) |->
        last.store0.docs[last.in.ranking[i]].page_content]

\* s is the beginning of t
IsPrefix(s, t) == Len(s) <= Len(t) /\ SubSeq(t, 1, Len(s)) = s

\* C11 - Retrieval bound: whatever the index holds, whatever the query and
\* k, get_relevant_context_from_vector_store returns at most 2000
\* characters, and they are the beginning of the texts of the documents the
\* similarity search returned, joined with newlines.
C11_RetrievalBound ==
    last.op = "get_relevant_context_from_vector_store" =>
        /\ ~last.r.raised
        /\ Len(last.r.returned) <= 2000
        /\ IsPrefix(last.r.returned, JoinWith(FoundTexts, <<Ws>>))

\* A retrieval whose joined texts were longer than 2000 characters and
\* were cut, and one that returned 2000 characters uncut
C11_Witness ==
    /\ last.op = "get_relevant_context_from_vector_store"
    /\ Len(last.r.returned) = 2000
    /\ Len(JoinWith(FoundTexts, <<Ws>>)) > 2000
    /\ last.in.k = 2

\* The two documents as the last finalization had to leave them: each holds
\* the generated text, or its old text when the generated one is blank
SummaryAfter == File(new_or_old(last.gen[1].response, read_file(last.summary0)))
StateAfter == File(new_or_old(last.gen[2].response, read_file(last.state0)))

\* C12 - Graceful degradation: when every call to the embedding backend
\* fails, no operation raises, init_vector_store returns None,
\* update_vector_store returns and adds nothing, the retrieval returns the
\* empty string, and finalize_chapter returns with the summary and the
\* character state persisted.
C12_GracefulDegradation ==
    backend = "down" =>
        /\ ~last.r.raised
        /\ last.op = "init_vector_store" => last.r.returned = None
        /\ last.op = "update_vector_store" =>
               last.r.store.docs = last.store0.docs
        /\ last.op = "get_relevant_context_from_vector_store" =>
               last.r.returned = <<>>
        /\ (last.op = "finalize_chapter" /\ last.gen # <<>>) =>
               /\ global_summary_file = SummaryAfter
               /\ character_state_file = StateAfter
               /\ vectorstore.docs = last.store0.docs

\* A finalization with the backend down and an index that has an entry:
\* the append fails and both documents hold the new texts
C12_Witness ==
    /\ backend = "down"
    /\ last.op = "finalize_chapter"
    /\ Len(last.gen) = 2
    /\ last.store0.docs # <<>>
    /\ ~IsBlank(last.gen[1].response)
    /\ global_summary_file = File(last.gen[1].response)
    /\ character_state_file = File(last.gen[2].response)

C16_Clear_AsStated ==
    last.op = "clear_vector_store" =>
        /\ ~last.store0.exists => last.r.returned = FALSE
        /\ last.r.returned = FALSE => vectorstore = last.store0
        /\ last.r.returned = TRUE => (last.store0.exists /\ vectorstore = NoStore)

\* C16 - clear_vector_store returns false and leaves the persisted index
\* exactly as it was when the index directory does not exist; when the
\* deletion fails it returns false and the directory still exists, with
\* all of its entries or with some of them removed; it returns true only
\* when the whole index directory has been removed.
C16_Clear ==
    last.op = "clear_vector_store" =>
        /\ ~last.r.raised
        /\ ~last.store0.exists =>
               (last.r.returned = FALSE /\ vectorstore = last.store0)
        /\ (last.r.returned = FALSE /\ last.store0.exists) =>
               /\ vectorstore.exists
               /\ Len(vectorstore.docs) <= Len(last.store0.docs)
               /\ IsPrefix(vectorstore.docs, last.store0.docs)
        /\ last.r.returned = TRUE => (last.store0.exists /\ vectorstore = NoStore)

\* A deletion that failed after it had removed entries of the index
C16_Witness ==
    /\ last.op = "clear_vector_store"
    /\ last.r.returned = FALSE
    /\ last.store0.docs # <<>>
    /\ vectorstore.exists
    /\ vectorstore # last.store0

\* What a load and a retrieval do where there is no index directory: the
\* load returns None, the retrieval the empty string, and neither creates
\* anything
AbsentIndex ==
    ~last.store0.exists =>
        /\ last.op = "load_vector_store" => last.r.returned = None
        /\ last.op = "get_relevant_context_from_vector_store" =>
               last.r.returned = <<>>
        /\ last.op \in {"load_vector_store",
                        "get_relevant_context_from_vector_store"} =>
               vectorstore = last.store0

\* Only an initialization, direct or through update_vector_store, makes an
\* index directory where there was none
UntilInitialize ==
    [][(~vectorstore.exists /\ vectorstore'.exists) =>
          last'.op \in {"init_vector_store", "update_vector_store"}]_vars

\* C17 as stated - load_vector_store returns None, without raising and
\* without creating anything on disk, exactly when no index exists at the
\* project path, and otherwise returns a handle on the persisted index;
\* after a clear that returned true the index does not exist, so that
\* load returns None and the retrieval the empty string.
C17_Load_AsStated ==
    /\ last.op = "load_vector_store" =>
           /\ ~last.r.raised
           /\ (last.r.returned = None) <=> ~last.store0.exists
           /\ last.r.returned # None => last.r.returned = Handle(last.store0)
           /\ vectorstore = last.store0
    /\ (last.op = "clear_vector_store" /\ last.r.returned = TRUE) =>
           ~vectorstore.exists
    /\ AbsentIndex

\* C17 - load_vector_store never raises and creates nothing on disk; it
\* returns None when no index directory exists at the project path; when
\* one exists it returns a handle on the persisted index, or None if
\* opening the index fails.  After a clear that returned true the index
\* does not exist, and as long as it does not, which is until the next
\* initialization, load returns None and the retrieval the empty string.
C17_Load ==
    /\ [](/\ last.op = "load_vector_store" =>
              /\ ~last.r.raised
              /\ ~last.store0.exists => last.r.returned = None
              /\ last.r.returned # None =>
                     (/\ last.store0.exists
                      /\ last.r.returned = Handle(last.store0))
              /\ vectorstore = last.store0
          /\ (last.op = "clear_vector_store" /\ last.r.returned = TRUE) =>
                 ~vectorstore.exists
          /\ AbsentIndex)
    /\ UntilInitialize

\* A load that returned None although the index exists and has entries
C17_Witness ==
    /\ last.op = "load_vector_store"
    /\ last.store0.exists
    /\ last.store0.docs # <<>>
    /\ last.r.returned = None
    /\ vectorstore = last.store0

----------------------------------------------------------------------------
(* Properties of the Finalization Controller *)

\* The text of the chapter the last finalization was asked for
ChapterRead == read_file(chapters_dir[last.in.novel_number])

\* C14 - Finalization of an empty chapter: when the text read for the
\* chapter is empty or blank, finalize_chapter issues no generation call,
\* leaves global_summary.txt and character_state.txt as they were, and
\* neither creates the index nor adds to it.
C14_EmptyChapter ==
    (last.op = "finalize_chapter" /\ IsBlank(ChapterRead)) =>
        /\ last.gen = <<>>
        /\ global_summary_file = last.summary0
        /\ character_state_file = last.state0
        /\ vectorstore = last.store0
        /\ ~last.r.raised

\* The finalization of the blank chapter 2 in a project that has both
\* documents and an index with entries
C14_Witness ==
    /\ last.op = "finalize_chapter"
    /\ last.in.novel_number = 2
    /\ IsBlank(ChapterRead)
    /\ ChapterRead # <<>>
    /\ last.summary0.exists
    /\ last.state0.exists
    /\ last.store0.docs # <<>>

\* C15 - Finalization with a blank generation result: for a chapter with
\* text, a blank summary leaves the content of global_summary.txt as it
\* was and a blank character state leaves the content of
\* character_state.txt as it was, each independently of the other; a
\* result that is not blank is the whole content of its file afterwards.
C15_BlankResults ==
    (last.op = "finalize_chapter" /\ ~IsBlank(ChapterRead)) =>
        /\ Len(last.gen) = 2
        /\ IF IsBlank(last.gen[1].response)
           THEN read_file(global_summary_file) = read_file(last.summary0)
           ELSE global_summary_file = File(last.gen[1].response)
        /\ IF IsBlank(last.gen[2].response)
           THEN read_file(character_state_file) = read_file(last.state0)
           ELSE character_state_file = File(last.gen[2].response)

\* A finalization whose summary is blank and whose character state is
\* not: the old summary, which has text, stays, and the character state
\* is replaced by a different text
C15_Witness ==
    /\ last.op = "finalize_chapter"
    /\ Len(last.gen) = 2
    /\ IsBlank(last.gen[1].response)
    /\ ~IsBlank(last.gen[2].response)
    /\ ~IsBlank(read_file(last.summary0))
    /\ global_summary_file = last.summary0
    /\ ~IsBlank(read_file(last.state0))
    /\ read_file(last.state0) # last.gen[2].response
    /\ character_state_file = File(last.gen[2].response)

----------------------------------------------------------------------------
(* Durability of the Stage Progress Record *)

\* C19 - Persist-before-proceed: in every run, whatever the outcome of the
\* writes of the progress record, when the prompt of a stage is rendered
\* the progress record on disk holds the result of every stage generated
\* earlier in that run.
C19_PersistBeforeProceed ==
    \A i \in 1..Len(calls) : \A j \in 1..(i - 1) :
        ~IsBlank(calls[j].response) =>
            /\ Has(Entries(calls[i].file_before), calls[j].stage)
            /\ Entries(calls[i].file_before)[calls[j].stage] = calls[j].response

\* C20 - Crash tolerance: when the process is terminated at any point of a
\* run, also while the progress record is being rewritten, every stage
\* entry that was on disk before the termination is loaded by the next
\* invocation, which therefore skips its stage.
C20_CrashTolerance ==
    [][(pc # "idle" /\ outcome' = "killed") =>
          \A s \in DOMAIN Entries(partial_file) :
              /\ Has(load_partial_architecture_data(partial_file'), s)
              /\ load_partial_architecture_data(partial_file')[s] =
                     Entries(partial_file)[s]]_vars

----------------------------------------------------------------------------
(* Durability of the Outline Document *)

\* The step has accepted a chunk in a chunk loop
ChunkAccepted ==
    /\ Len(requests') = Len(requests) + 1
    /\ bp_outcome' # "killed"
    /\ requests'[Len(requests')].kind = "chunk"
    /\ ~IsBlank(requests'[Len(requests')].response)

\* C21 (crash tolerance of the outline controller): a step that accepts a
\* chunk leaves the whole accumulated outline in Novel_directory.txt, and a
\* step in which the process is terminated, at whatever point, leaves in
\* the file everything that was persisted in it before.
C21_OutlineCrashTolerance ==
    [][/\ ChunkAccepted =>
             directory_file'.text = Strip(final_blueprint')
       /\ (bp_pc # "idle" /\ bp_outcome' = "killed") =>
             /\ directory_file'.exists = directory_file.exists
             /\ Contains(directory_file'.text, Strip(directory_file.text))]_vars

----------------------------------------------------------------------------
(* Invariants of the Stage Progress Record *)

\* The stages whose entries the prompt of a stage is rendered from
Dependencies(s) ==
    CASE s = "core_seed_result" -> {}
      [] s = "character_dynamics_result" -> {"core_seed_result"}
      [] s = "character_state_result" -> {"character_dynamics_result"}
      [] s = "world_building_result" -> {"core_seed_result"}
      [] s = "plot_arch_result" ->
             {"core_seed_result", "character_dynamics_result",
              "world_building_result"}

\* Every entry of a record has the entries of its dependencies beside it
DependenciesPresent(d) ==
    \A s \in DOMAIN d : \A q \in Dependencies(s) : Has(d, q)

\* C22 (dependency invariant): from an absent record, through any sequence
\* of runs with any pattern of blank responses, the in-memory record and
\* the record on disk hold a stage's entry only beside the entries of all
\* its dependencies.
C22_DependencyInvariant ==
    /\ DependenciesPresent(partial_data)
    /\ DependenciesPresent(Entries(partial_file))

\* A run that resumed a record with the first three entries has persisted
\* the plot architecture beside them
C22_Witness ==
    /\ Has(Found, "character_state_result")
    /\ ~Has(Found, "world_building_result")
    /\ Has(Entries(partial_file), "plot_arch_result")
    /\ partial_data = Entries(partial_file)

\* The step has written the entry of stage s into the record on disk
EntryWritten(s) ==
    /\ ~Has(Entries(partial_file), s)
    /\ Has(Entries(partial_file'), s)

\* C23 (write-once stage entries): over runs made one after another, each of
\* which returns and whose writes succeed, an entry enters the record on
\* disk only in the step of its stage's generation call, with the non-blank
\* text the call returned, and then keeps its text as long as the record
\* exists; the in-memory record of a run keeps every entry it holds.
C23_WriteOnce ==
    [][\A s \in Stages :
          /\ EntryWritten(s) =>
                /\ Len(calls') = Len(calls) + 1
                /\ calls'[Len(calls')].stage = s
                /\ calls'[Len(calls')].response = Entries(partial_file')[s]
                /\ ~IsBlank(Entries(partial_file')[s])
          /\ (Has(Entries(partial_file), s) /\ partial_file'.state # "absent") =>
                /\ Has(Entries(partial_file'), s)
                /\ Entries(partial_file')[s] = Entries(partial_file)[s]
          /\ (Has(partial_data, s) /\ pc # "idle") =>
                /\ Has(partial_data', s)
                /\ partial_data'[s] = partial_data[s]]_vars

\* A resumed run has written the character dynamics beside the core seed
\* it found, and is at the character state
C23_Witness ==
    /\ pc = "char_state"
    /\ DOMAIN Found = {"core_seed_result"}
    /\ DOMAIN Entries(partial_file) =
           {"core_seed_result", "character_dynamics_result"}
    /\ Entries(partial_file)["core_seed_result"] = Found["core_seed_result"]
    /\ Len(calls) = 1

----------------------------------------------------------------------------
(* The character-state side stage *)

\* The calls of the run for the character-state side stage
SideCalls == {i \in DOMAIN calls : calls[i].stage = "character_state_result"}

\* What the run held in its record when control reached the side stage:
\* the entries found on disk and the results accepted before
ReachedWith(s) ==
    \/ Has(Found, s)
    \/ \E i \in DOMAIN calls : calls[i].stage = s /\ ~IsBlank(calls[i].response)

\* Control has passed the side stage
PastSideStage == pc \in {"step3", "step4", "write_final", "remove_partial"}

\* The call of the side stage is issued exactly when the record holds the
\* character dynamics and no character state as control reaches it; its
\* prompt is rendered from the character dynamics alone; a non-blank result
\* is the whole of character_state.txt and is entered in the record, in
\* memory and, until the record is removed, on disk
SideStageRuns ==
    /\ \A i \in SideCalls :
          /\ ~Has(Found, "character_state_result")
          /\ ReachedWith("character_dynamics_result")
          /\ calls[i].prompt =
                 Prompt("create_character_state_prompt",
                        <<Strip(partial_data["character_dynamics_result"])>>)
          /\ ~IsBlank(calls[i].response) =>
                /\ character_state_file = File(calls[i].response)
                /\ partial_data["character_state_result"] = calls[i].response
                /\ partial_file.state # "absent" =>
                       /\ Has(Entries(partial_file), "character_state_result")
                       /\ Entries(partial_file)["character_state_result"] =
                              calls[i].response
    /\ (PastSideStage /\ ~Has(Found, "character_state_result")) =>
           SideCalls # {}

\* C24 as stated (character-state side stage): the side stage runs as
\* above, and its result does not decide whether world building and plot
\* architecture run: no run is halted by the side stage.
C24_SideStage_AsStated ==
    /\ SideStageRuns
    /\ outcome = "halted" =>
           calls[Len(calls)].stage # "character_state_result"

\* C24 as amended: the side stage runs as above; a blank result of it halts
\* the run as that of any stage does, before world building; beyond that
\* the later stages do not look at the character state: their prompts are
\* rendered from the core seed, the character dynamics and the world alone.
C24_SideStage ==
    /\ SideStageRuns
    /\ \A i \in SideCalls :
          IsBlank(calls[i].response) =>
              /\ i = Len(calls)
              /\ pc = "idle" /\ outcome = "halted"
              /\ ~Has(partial_data, "character_state_result")
    /\ \A i \in DOMAIN calls :
          /\ calls[i].stage = "world_building_result" =>
                calls[i].prompt =
                    Prompt("world_building_prompt",
                           <<Strip(partial_data["core_seed_result"])>>)
          /\ calls[i].stage = "plot_arch_result" =>
                calls[i].prompt =
                    Prompt("plot_architecture_prompt",
                           <<Strip(partial_data["core_seed_result"]),
                             Strip(partial_data["character_dynamics_result"]),
                             Strip(partial_data["world_building_result"])>>)

\* A run that found the character dynamics on disk has generated the
\* character state and is at world building
C24_Witness ==
    /\ pc = "step3"
    /\ Has(Found, "character_dynamics_result")
    /\ SideCalls # {}
    /\ character_state_file = File(partial_data["character_state_result"])

----------------------------------------------------------------------------
(* Growth of the Outline Document *)

\* C25 (outline append-only): in runs made one after another, every step
\* leaves in Novel_directory.txt a text that begins, leading and trailing
\* whitespace aside, with the text the file held before the step.
C25_AppendOnly ==
    [][IsPrefix(Strip(directory_file.text), Strip(directory_file'.text))]_vars

\* A run that resumed an outline has appended two chunks to it
C25_Witness ==
    /\ bp_pc = "resume_loop"
    /\ Strip(bp0.text) # <<>>
    /\ Len(requests) = 2
    /\ ~IsBlank(requests[2].response)
    /\ directory_file.text = Strip(final_blueprint)
    /\ Len(directory_file.text) > Len(Strip(bp0.text)) + 2

----------------------------------------------------------------------------
(* Ranges of the chunk loops *)

\* The chapter a run starts at: 1 when the outline it found is empty, one
\* above the highest marker found otherwise
StartChapter ==
    IF Strip(bp0.text) = <<>> THEN 1
    ELSE 1 + CHOOSE h \in {0} \cup {bp0.text[i].n : i \in DOMAIN bp0.text} :
                 IsHighest(bp0.text, h)

\* The chapters from the start chapter to the last
Remaining ==
    IF StartChapter > number_of_chapters THEN 0
    ELSE number_of_chapters - StartChapter + 1

\* The least number of parts of size c that cover a
CeilDiv(a, c) == (a + c - 1) \div c

NoBlankChunk == \A i \in DOMAIN requests : ~IsBlank(requests[i].response)

----------------------------------------------------------------------------
(* The single shot *)

\* The run has returned, and its chunk size covers the chapters from the
\* start chapter to the last, of which there is at least one
CoveredRun ==
    /\ bp_outcome \in {"completed", "halted"}
    /\ StartChapter <= number_of_chapters
    /\ chunk_size >= number_of_chapters - StartChapter + 1

\* C27 as stated (single-shot shortcut): a run whose chunk size covers all
\* remaining chapters, whether the outline it found was empty or not,
\* issues exactly one call, with the single-shot prompt, for the whole
\* range that remains.
C27_SingleShot_AsStated ==
    CoveredRun =>
        /\ Len(requests) = 1
        /\ requests[1].kind = "single"
        /\ requests[1].n = StartChapter
        /\ requests[1].m = number_of_chapters

\* C27 as amended: such a run issues exactly one call for the whole range
\* that remains, with the single-shot prompt when the outline it found was
\* empty and with the chunk prompt, from the chunk loop, when it was not;
\* the single-shot prompt is used by no other run.
C27_SingleShot ==
    /\ CoveredRun =>
          /\ Len(requests) = 1
          /\ requests[1].kind = "single" <=> Strip(bp0.text) = <<>>
          /\ requests[1].n = StartChapter
          /\ requests[1].m = number_of_chapters
    /\ \A i \in DOMAIN requests :
          requests[i].kind = "single" =>
              /\ Strip(bp0.text) = <<>>
              /\ chunk_size >= number_of_chapters
              /\ Len(requests) = 1
              /\ requests[i].chapter_list = <<>>

\* The outline of three chapters has been written by the single shot
C27_Witness ==
    /\ CoveredRun
    /\ bp_outcome = "completed"
    /\ number_of_chapters = MaxChapters
    /\ requests[1].kind = "single"
    /\ directory_file.text = requests[1].response

----------------------------------------------------------------------------
(* Growth of the index *)

\* The segments of the chapter the last finalization was given
FinalizedSegments ==
    split_text_for_vectorstore(
        Strip(read_file(chapters_dir[last.in.novel_number])))

\* The last operation was the finalization of a chapter with text
FinalizedChapter == last.op = "finalize_chapter" /\ last.gen # <<>>

\* C28 (index effect of finalization): after the finalization of a chapter
\* with text, the embedding backend working, the index exists and holds the
\* entries it held before, unchanged and in their places, and after them
\* an entry for every segment of the chapter; and no operation other than
\* clear_vector_store, whatever the backend does, removes or changes an
\* entry of the index.
C28_IndexGrowth ==
    /\ [](FinalizedChapter /\ backend = "up" =>
             /\ vectorstore.exists
             /\ IsPrefix(last.store0.docs, vectorstore.docs)
             /\ \A i \in DOMAIN FinalizedSegments :
                    \E j \in DOMAIN vectorstore.docs :
                        /\ j > Len(last.store0.docs)
                        /\ vectorstore.docs[j].page_content =
                               FinalizedSegments[i])
    /\ [][last'.op # "clear_vector_store" =>
             IsPrefix(vectorstore.docs, vectorstore'.docs)]_vars

\* A finalization has added the segment of its chapter to an index that
\* held an entry
C28_Witness ==
    /\ FinalizedChapter /\ backend = "up"
    /\ last.store0.docs # <<>>
    /\ FinalizedSegments # <<>>
    /\ Len(vectorstore.docs) = Len(last.store0.docs) + Len(FinalizedSegments)

----------------------------------------------------------------------------
(* Properties of the Text Segmenter *)

\* The last operation was a segmentation; Segmented: what it returned
Splitting ==
    last.op \in {"split_text_for_vectorstore", "advanced_split_content"}

Segmented == last.r.returned

\* C29 (segment length bound): every segment returned by
\* split_text_for_vectorstore and by advanced_split_content has at most
\* max_length characters.
C29_SegmentBound ==
    Splitting =>
        \A i \in DOMAIN Segmented : Len(Segmented[i]) <= max_length

\* The segments are the sentences, in order, each whole and in one segment,
\* those of a segment joined by a space
RECURSIVE Grouped(_, _)
Grouped(sentences, segments) ==
    IF segments = <<>> THEN sentences = <<>>
    ELSE \E k \in 1..Len(sentences) :
            /\ JoinWith(SubSeq(sentences, 1, k), <<Ws>>) = segments[1]
            /\ Grouped(SubSeq(sentences, k + 1, Len(sentences)),
                       Tail(segments))

\* C30 (segmenter output shape): split_text_for_vectorstore returns a list
\* of non-empty segments that hold the sentences of the input in order,
\* each whole and exactly once, the last segment included however short;
\* for an empty or blank input it returns the empty list.
C30_OutputShape ==
    last.op = "split_text_for_vectorstore" =>
        /\ \A i \in DOMAIN Segmented : Segmented[i] # <<>>
        /\ Grouped(sent_tokenize(last.in.text), Segmented)
        /\ IsBlank(last.in.text) => Segmented = <<>>
        /\ ~IsBlank(last.in.text) => Segmented # <<>>

\* A text of three sentences has been split into two segments, the last of
\* them a sentence of two characters
C30_Witness ==
    /\ last.op = "split_text_for_vectorstore"
    /\ Len(sent_tokenize(last.in.text)) = 3
    /\ Len(Segmented) = 2
    /\ Len(Segmented[2]) = 2

----------------------------------------------------------------------------
(* Two runs on one project directory *)

\* The call of a run that generated the entry of the stage in its record
GeneratedBy(run_calls, stage, text) ==
    {i \in DOMAIN run_calls :
        run_calls[i].stage = stage /\ run_calls[i].response = text}

\* A save of the run replaced an entry that the file held by another text
Overwrote(run_calls, stage) ==
    \E i \in DOMAIN run_calls :
        LET before == run_calls[i].file_before
        IN  /\ run_calls[i].stage = stage
            /\ ~IsBlank(run_calls[i].response)
            /\ before.state = "ok"
            /\ Has(before.data, stage)
            /\ before.data[stage] # run_calls[i].response

\* C32 (unprotected concurrent runs): nothing guards the progress record
\* against a second run.  Whenever a process changes the record, the file
\* is left with exactly the in-memory record of that process, whatever
\* entries another process had persisted in it, or it is removed; so that
\* with two runs on one project directory an entry persisted by one run is
\* lost to the save of the other (C32_Witness).
C32_LostUpdate ==
    [][partial_file' # partial_file =>
          \/ partial_file' = RecordFile(partial_data')
          \/ partial_file' = NoRecord /\ pc = "remove_partial"]_vars

\* The first process has overwritten the core seed persisted by the second
\* with its own, has written the final document and removed the record;
\* the second process has then saved its record: the record holds again a
\* core seed and the character dynamics generated from it, and the final
\* document holds another core seed.
C32_Witness ==
    /\ other.outcome = "completed"
    /\ Overwrote(other.calls, "core_seed_result")
    /\ arch_file = File(final_content(other.partial_data, other.topic))
    /\ pc # "idle"
    /\ partial_file = RecordFile(partial_data)
    /\ Has(partial_data, "character_dynamics_result")
    /\ \E i \in GeneratedBy(calls, "character_dynamics_result",
                            partial_data["character_dynamics_result"]) :
           /\ calls[i].prompt.args = <<Strip(partial_data["core_seed_result"])>>
           /\ calls[i].prompt.args
                  # <<Strip(other.partial_data["core_seed_result"])>>

----------------------------------------------------------------------------
(* Completion under re-invocation *)

\* DONE: the final document is written and the progress record is absent
Done ==
    /\ outcome = "completed"
    /\ wrote_final
    /\ arch_file.exists
    /\ partial_file = NoRecord

\* The stages that have an entry in a progress file
StagesOf(f) == DOMAIN Entries(f)

\* C33 (eventual completion under re-invocation): when the caller invokes
\* Novel_architecture_generate again after every halted run, no write of
\* the progress record fails and every stage's generation call returns
\* non-blank text at some time, the pipeline reaches DONE; until then no
\* step removes a stage from the persisted record, and every run finds at
\* least the stages the run before it found.
C33_Completion ==
    /\ <>Done
    /\ [][/\ outcome' # "completed"
             => StagesOf(partial_file) \subseteq StagesOf(partial_file')
          /\ pc = "idle" /\ pc' = "step1"
             => StagesOf(run0.partial_file)
                    \subseteq StagesOf(run0'.partial_file)
         ]_vars

\* A run invoked after a halted one has found the core seed and the
\* character dynamics in the record, has generated the three other stages
\* and has reached DONE
C33_Witness ==
    /\ Done
    /\ StagesOf(run0.partial_file)
           = {"core_seed_result", "character_dynamics_result"}
    /\ Len(calls) = 3

====
